---- MODULE Spec2Model ----
(***************************************************************************)
(* A model of the rewards automation core: the browser session lifecycle   *)
(* (src/src/browser.py), the dashboard state fetcher (src/src/utils.py),   *)
(* the activity completion loop and its incomplete-activity report         *)
(* (src/src/activities.py), the remaining-search accessor, the device      *)
(* geometry with its profile store and the locale resolution               *)
(* (src/src/browser.py), the answer code (src/src/utils.py), the threads   *)
(* of an activity, the quiz load wait and the three quiz protocols         *)
(* (src/src/activities.py), and the two sessions of executeBot             *)
(* (src/main.py).                                                          *)
(*                                                                         *)
(* The browser is the environment: every webdriver call either succeeds    *)
(* or raises, the page it lands on is chosen by the browser.  Each         *)
(* component has its own specification over the shared variables; the      *)
(* variables of the other components keep their initial values.            *)
(***************************************************************************)
EXTENDS Integers, Sequences, FiniteSets, TLC

VARIABLES
    \* ---- Utils.getDashboardData / Utils.goToRewards ----
    dpc,          \* position inside getDashboardData
    tries,        \* completed iterations of "for _ in range(maxTries)"
    reads,        \* execute_script("return dashboard") calls made
    url,          \* the browser's current URL
    urlBefore,    \* the local urlBefore
    lastGet,      \* target of the last webdriver.get issued by the call
    pend,         \* what the try block left pending when finally runs
    gctx,         \* which caller goToRewards returns to
    navBack,      \* outcome of the last webdriver.get(urlBefore)
    outcome,      \* how getDashboardData finished
    raisedBy,     \* the statement whose exception reached the caller
    \* ---- Browser: constructor, setup_browser, cleanup, with block ----
    bpc,          \* position in the life of one Browser object
    webdriver,    \* self.webdriver: "None" or the driver
    utils,        \* self.utils: "None" or the Utils accessor
    process,      \* the browser process: "none", "running", "terminated"
    closeCalls,   \* webdriver.close() calls issued
    quitCalls,    \* webdriver.quit() calls issued
    discover,     \* Target.setDiscoverTargets has been enabled
    listeners,    \* handlers registered for Target.targetCreated
    initialApplied, \* CDP commands applied to the initial tab
    targets,      \* targets reported created: <<[type, applied]>>
    failedStep,   \* the construction step that raised
    exitPath,     \* how the with block was left
    \* ---- Activities.completeActivities / doActivity / Utils.resetTabs ----
    apc,          \* position inside completeActivities
    astep,        \* position inside doActivity
    dailySetPromotions, \* the local dailySetPromotions
    morePromotions,     \* the local morePromotions
    idx,          \* 1-based position of the for loop in its catalog
    handles,      \* webdriver.window_handles
    curr,         \* webdriver.current_window_handle
    tabUrl,       \* the URL each open window shows
    attempted,    \* <<catalog, position>> of every doActivity call so far
    opened,       \* the last doActivity got past its skip checks
    procOutcome,  \* how opening and completing went in the last doActivity
    doResult,     \* how the last doActivity ended
    abortedBy,    \* what ended completeActivities early
    clicked,      \* the last doActivity clicked an element of a page
    modalButton,  \* what the last doActivity found of the modal's button
    protocol,     \* the completion function the last doActivity started
    typed,        \* what the last doActivity typed into the search bar
    reportEnabled, \* CONFIG apprise.notify.incomplete-activity.enabled
    reread,       \* the catalogs read again for the report, concatenated
    incompleteActivities, \* the local incompleteActivities: its entries
    notifications, \* sendNotification calls made by completeActivities
    \* ---- Browser.getRemainingSearches ----
    rsIn,         \* the dashboard fields and arguments of one call
    rsOut,        \* what the call returned or that it raised
    rsLocals,     \* locals of the call when it ended: searchPoints, and
                  \* whether counters["mobileSearch"] was subscripted
    \* ---- getAnswerCode ----
    acKey,        \* the argument key, a sequence of characters
    acText,       \* the argument string, a sequence of characters
    acOut,        \* the string returned, or the exception raised
    \* ---- Browser: device geometry and the profile store ----
    gpc,          \* position of the current Browser: "load", "open", "raised"
    session,      \* how many Browser objects the account has had
    mobile,       \* self.mobile of the current one
    browserConfig, \* the "sizes" entry of self.browserConfig
    configFile,   \* the "sizes" entry of config.json, or that it is absent
    applied,      \* the geometry of every _apply_cdp_settings call so far
    \* ---- Browser.getLanguageCountry ----
    lcIn,         \* the arguments and what each source has to offer
    lcOut,        \* the tuple returned, or that the call raised
    \* ---- Activities._process_activity_with_heartbeat: its threads ----
    hpc,          \* position of the main flow inside the current call
    hbusy,        \* the main flow is inside a webdriver command
    hacts,        \* calls of _process_activity_with_heartbeat returned
    hthreads,     \* the heartbeat threads started so far: <<[at, busy]>>
    \* ---- executeBot: the sessions of one account ----
    botpc,        \* which with block executeBot is at, or how it ended
    searchtype,   \* args.searchtype
    desktopProcess, \* the desktop session's browser process once its with
                  \* block has been left
    \* ---- Activities.waitUntilQuizLoads ----
    wpc,          \* position inside waitUntilQuizLoads
    qtries,       \* the local tries
    refreshCount, \* the local refreshCount
    lastFound,    \* the last find_element found the question container
    checks,       \* find_element calls since the last refresh (or the start)
    reloadChecks, \* for every refresh() call, the value of checks before it
    wresult,      \* what the call returned, or that it raised
    \* ---- Activities.completeQuiz ----
    qpc,          \* position inside completeQuiz
    numberOfOptions,       \* the local numberOfOptions
    currentQuestionNumber, \* the local currentQuestionNumber
    maxQuestions, \* the local maxQuestions
    rounds,       \* iterations of the for loop started
    qpage,        \* the question the page shows in the current round
    answers,      \* the options of the round still to be clicked
    qlog,         \* clicks and refresh waits of the current round, in order
    qresult,      \* how completeQuiz ended
    \* ---- Activities.completeABC ----
    abpc,         \* position inside completeABC
    header,       \* the text of the question-count header, its characters
    numberOfQuestions, \* the local numberOfQuestions
    question,     \* the loop variable question
    ablog,        \* the clicks made so far, in order
    abresult,     \* how completeABC ended
    \* ---- Activities.completeThisOrThat ----
    tpc,          \* position inside completeThisOrThat
    tround,       \* iterations of "for _ in range(10)" started
    tpage,        \* what the page shows in the current round
    answerToClick, \* the local answerToClick: the round in which it was
                  \* bound (0 while unbound) and the option it refers to
    tclick,       \* the option clicked in the current round, -1 if none
    tresult,      \* how completeThisOrThat ended
    \* ---- Utils.click ----
    kpc,          \* position inside click and tryDismissAllMessages
    attempt,      \* 1 inside the try block of click, 2 inside its handler
    clickLog,     \* the outcome of every element.click() so far, in order
    dismissCalls, \* calls of tryDismissAllMessages so far
    byIndex,      \* the entry of byValues tryDismissAllMessages is at
    dismissedBy,  \* the entries of byValues whose button was clicked
    clickResult   \* how click ended: "returned" or the exception raised

dashVars == <<dpc, tries, reads, url, urlBefore, lastGet, pend, gctx, navBack,
              outcome, raisedBy>>

sessVars == <<bpc, webdriver, utils, process, closeCalls, quitCalls, discover,
              listeners, initialApplied, targets, failedStep, exitPath>>

reportVars == <<reportEnabled, reread, incompleteActivities, notifications>>

actVars == <<apc, astep, dailySetPromotions, morePromotions, idx, handles,
             curr, tabUrl, attempted, opened, procOutcome, doResult, abortedBy,
             clicked, modalButton, protocol, typed, reportVars>>

rsVars == <<rsIn, rsOut, rsLocals>>

codeVars == <<acKey, acText, acOut>>

geoVars == <<gpc, session, mobile, browserConfig, configFile, applied>>

(* The variables of the components added to the first four.                *)
lcVars == <<lcIn, lcOut>>

hbVars == <<hpc, hbusy, hacts, hthreads>>

botVars == <<botpc, searchtype, desktopProcess>>

loadVars == <<wpc, qtries, refreshCount, lastFound, checks, reloadChecks,
              wresult>>

quizVars == <<qpc, numberOfOptions, currentQuestionNumber, maxQuestions,
              rounds, qpage, answers, qlog, qresult>>

abcVars == <<abpc, header, numberOfQuestions, question, ablog, abresult>>

totVars == <<tpc, tround, tpage, answerToClick, tclick, tresult>>

clickVars == <<kpc, attempt, clickLog, dismissCalls, byIndex, dismissedBy,
               clickResult>>

moreVars == <<hbVars, botVars, loadVars, quizVars, abcVars, totVars,
              clickVars>>

extraVars == <<codeVars, geoVars, lcVars, moreVars>>

baseVars == <<dashVars, sessVars, actVars, rsVars, codeVars, geoVars, lcVars>>

vars == <<dashVars, sessVars, actVars, rsVars, extraVars>>

-----------------------------------------------------------------------------
(* Pages of the browser.  REWARDS_URL is the dashboard.                    *)
REWARDS_URL == "rewards"

URLS == {"rewards", "search", "login"}

(* Outcomes of one webdriver call.                                         *)
GetOutcomes == {"ok", "TimeoutException", "WebDriverException"}

CallOutcomes == {"ok", "raise"}

maxTries == 5

-----------------------------------------------------------------------------
(* Utils.getDashboardData, one action per statement of its loop.           *)

DashStart ==
    /\ dpc = "start"
    /\ tries = 0
    /\ reads = 0
    /\ url \in URLS
    /\ urlBefore = "unset"
    /\ lastGet = "none"
    /\ pend = "none"
    /\ gctx = "none"
    /\ navBack = "none"
    /\ outcome = "running"
    /\ raisedBy = "none"

(* The variables of the other components, which a step of the fetch        *)
(* leaves alone.                                                           *)
DashFrame == UNCHANGED <<sessVars, actVars, rsVars, extraVars>>

(* urlBefore = self.webdriver.current_url; maxTries = 5                    *)
DashBegin ==
    /\ DashFrame
    /\ dpc = "start"
    /\ urlBefore' = url
    /\ dpc' = "try"
    /\ UNCHANGED <<tries, reads, url, lastGet, pend, gctx, navBack, outcome,
                   raisedBy>>

(* goToRewards, first statement: self.webdriver.get(REWARDS_URL).  An      *)
(* exception of get leaves goToRewards; in the try block it is caught by   *)
(* the bare except of getDashboardData.                                    *)
DashTryGet ==
    /\ DashFrame
    /\ dpc = "try"
    /\ lastGet' = REWARDS_URL
    /\ \E r \in GetOutcomes :
         IF r = "ok"
         THEN /\ \E u \in URLS : url' = u
              /\ dpc' = "gtr_check"
              /\ gctx' = "try"
         ELSE /\ \E u \in {url, REWARDS_URL} : url' = u
              /\ dpc' = "except"
              /\ gctx' = "none"
    /\ UNCHANGED <<tries, reads, urlBefore, pend, navBack, outcome, raisedBy>>

(* goToRewards, the loop's test: assert current_url == REWARDS_URL; return *)
DashGtrReturn ==
    /\ DashFrame
    /\ dpc = "gtr_check"
    /\ url = REWARDS_URL
    /\ dpc' = IF gctx = "try" THEN "read" ELSE "after_finally"
    /\ gctx' = "none"
    /\ UNCHANGED <<tries, reads, url, urlBefore, lastGet, pend, navBack,
                   outcome, raisedBy>>

(* goToRewards, the assertion failed: the bare except is entered.          *)
DashGtrMismatch ==
    /\ DashFrame
    /\ dpc = "gtr_check"
    /\ url # REWARDS_URL
    /\ dpc' = "gtr_refresh"
    /\ UNCHANGED <<tries, reads, url, urlBefore, lastGet, pend, gctx, navBack,
                   outcome, raisedBy>>

(* goToRewards, the except body: self.webdriver.refresh(); time.sleep(10); *)
(* then the loop "while True" starts over.  An exception of refresh leaves *)
(* goToRewards.                                                            *)
DashGtrRefresh ==
    /\ DashFrame
    /\ dpc = "gtr_refresh"
    /\ \E r \in CallOutcomes :
         IF r = "ok"
         THEN /\ \E u \in URLS : url' = u
              /\ dpc' = "gtr_check"
              /\ UNCHANGED <<gctx, outcome, raisedBy>>
         ELSE /\ url' = url
              /\ gctx' = "none"
              /\ IF gctx = "try"
                 THEN dpc' = "except" /\ UNCHANGED <<outcome, raisedBy>>
                 ELSE dpc' = "done" /\ outcome' = "raised"
                      /\ raisedBy' = "fallback"
    /\ UNCHANGED <<tries, reads, urlBefore, lastGet, pend, navBack>>

(* return self.webdriver.execute_script("return dashboard")                *)
DashRead ==
    /\ DashFrame
    /\ dpc = "read"
    /\ reads' = reads + 1
    /\ \E r \in CallOutcomes :
         IF r = "ok"
         THEN dpc' = "finally" /\ pend' = "return"
         ELSE dpc' = "except" /\ pend' = pend
    /\ UNCHANGED <<tries, url, urlBefore, lastGet, gctx, navBack, outcome,
                   raisedBy>>

(* except: self.webdriver.refresh(); time.sleep(10);                       *)
(*         self.waitUntilVisible(By.ID, 'app-host', 30)                    *)
(* An exception of refresh or of the wait is pending while finally runs.   *)
DashExcept ==
    /\ DashFrame
    /\ dpc = "except"
    /\ dpc' = "finally"
    /\ \E refreshed \in CallOutcomes, waited \in CallOutcomes :
         /\ IF refreshed = "ok" THEN \E u \in URLS : url' = u ELSE url' = url
         /\ pend' = IF refreshed = "raise" THEN "refresh"
                    ELSE IF waited = "raise" THEN "wait"
                    ELSE "none"
    /\ UNCHANGED <<tries, reads, urlBefore, lastGet, gctx, navBack, outcome,
                   raisedBy>>

(* finally: try: self.webdriver.get(urlBefore)                             *)
(* A TimeoutException is handled by the fallback; any other exception      *)
(* replaces what was pending and reaches the caller.                       *)
DashFinally ==
    /\ DashFrame
    /\ dpc = "finally"
    /\ lastGet' = urlBefore
    /\ \E r \in GetOutcomes :
         /\ navBack' = r
         /\ CASE r = "ok" ->
                   /\ \E u \in {urlBefore, "login"} : url' = u
                   /\ dpc' = "after_finally"
                   /\ UNCHANGED <<outcome, raisedBy>>
              [] r = "TimeoutException" ->
                   /\ url' = url
                   /\ dpc' = "fallback"
                   /\ UNCHANGED <<outcome, raisedBy>>
              [] OTHER ->
                   /\ url' = url
                   /\ dpc' = "done"
                   /\ outcome' = "raised"
                   /\ raisedBy' = "navback"
    /\ UNCHANGED <<tries, reads, urlBefore, pend, gctx>>

(* except TimeoutException: self.goToRewards(), its first statement.       *)
DashFallbackGet ==
    /\ DashFrame
    /\ dpc = "fallback"
    /\ lastGet' = REWARDS_URL
    /\ \E r \in GetOutcomes :
         IF r = "ok"
         THEN /\ \E u \in URLS : url' = u
              /\ dpc' = "gtr_check"
              /\ gctx' = "finally"
              /\ UNCHANGED <<outcome, raisedBy>>
         ELSE /\ url' = url
              /\ dpc' = "done"
              /\ gctx' = "none"
              /\ outcome' = "raised"
              /\ raisedBy' = "fallback"
    /\ UNCHANGED <<tries, reads, urlBefore, pend, navBack>>

(* DashAfterFinally with the loop written as range(maxTries + 1).          *)
DashAfterFinallyOneMore ==
    /\ UNCHANGED <<sessVars, actVars, rsVars, extraVars>>
    /\ dpc = "after_finally"
    /\ CASE pend = "return" ->
              /\ dpc' = "done" /\ outcome' = "dict"
              /\ UNCHANGED <<tries, raisedBy>>
         [] pend \in {"refresh", "wait"} ->
              /\ dpc' = "done" /\ outcome' = "raised" /\ raisedBy' = pend
              /\ UNCHANGED tries
         [] OTHER ->
              /\ tries' = tries + 1
              /\ IF tries + 1 < maxTries + 1
                 THEN dpc' = "try" /\ outcome' = outcome
                 ELSE dpc' = "done" /\ outcome' = "None"
              /\ UNCHANGED raisedBy
    /\ pend' = "none"
    /\ UNCHANGED <<reads, url, urlBefore, lastGet, gctx, navBack>>

(* The finally block is over: the pending return or exception takes        *)
(* effect, otherwise the for loop goes on; when range(maxTries) is         *)
(* exhausted the function body ends, which returns None.                   *)
DashAfterFinally ==
    /\ DashFrame
    /\ dpc = "after_finally"
    /\ CASE pend = "return" ->
              /\ dpc' = "done" /\ outcome' = "dict"
              /\ UNCHANGED <<tries, raisedBy>>
         [] pend \in {"refresh", "wait"} ->
              /\ dpc' = "done" /\ outcome' = "raised" /\ raisedBy' = pend
              /\ UNCHANGED tries
         [] OTHER ->
              /\ tries' = tries + 1
              /\ IF tries + 1 < maxTries
                 THEN dpc' = "try" /\ outcome' = outcome
                 ELSE dpc' = "done" /\ outcome' = "None"
              /\ UNCHANGED raisedBy
    /\ pend' = "none"
    /\ UNCHANGED <<reads, url, urlBefore, lastGet, gctx, navBack>>

DashNext ==
    \/ DashBegin
    \/ DashTryGet
    \/ DashGtrReturn
    \/ DashGtrMismatch
    \/ DashGtrRefresh
    \/ DashRead
    \/ DashExcept
    \/ DashFinally
    \/ DashFallbackGet
    \/ DashAfterFinally


-----------------------------------------------------------------------------
(* Browser: __init__ from setup_browser on, the with block, cleanup.       *)

(* len(cdp_commands): ten fixed commands and one Browser.grantPermissions  *)
(* for each of the four domains.                                           *)
NumCdpCommands == 14

(* Targets the browser reports while one session is open.                  *)
MaxTargets == 2

TargetTypes == {"page", "iframe"}

SessStart ==
    /\ bpc = "init"
    /\ webdriver = "None"
    /\ utils = "None"
    /\ process = "none"
    /\ closeCalls = 0
    /\ quitCalls = 0
    /\ discover = FALSE
    /\ listeners = 0
    /\ initialApplied = 0
    /\ targets = <<>>
    /\ failedStep = "none"
    /\ exitPath = "none"

SessIdle == SessStart

SessFrame == UNCHANGED <<dashVars, actVars, rsVars, extraVars>>

(* Browser.cleanup as it would be with "finally" replaced by "else": the   *)
(* references are dropped only when close() and quit() both returned.      *)
cleanupKeepsReferences(closed, quitted) ==
    IF webdriver = "None"
    THEN UNCHANGED <<webdriver, utils, process, closeCalls, quitCalls>>
    ELSE /\ closeCalls' = closeCalls + 1
         /\ quitCalls' = IF closed = "ok" THEN quitCalls + 1 ELSE quitCalls
         /\ process' = IF closed = "ok" THEN "terminated" ELSE process
         /\ webdriver' = IF closed = "ok" /\ quitted = "ok"
                         THEN "None" ELSE webdriver
         /\ utils' = IF closed = "ok" /\ quitted = "ok" THEN "None" ELSE utils

(* Browser.cleanup.  closed and quitted are the outcomes of                *)
(* webdriver.close() and webdriver.quit(): both calls sit in one try, so   *)
(* an exception of close() skips quit(); the finally clause drops both     *)
(* references.                                                             *)
cleanup(closed, quitted) ==
    IF webdriver = "None"
    THEN UNCHANGED <<webdriver, utils, process, closeCalls, quitCalls>>
    ELSE /\ closeCalls' = closeCalls + 1
         /\ quitCalls' = IF closed = "ok" THEN quitCalls + 1 ELSE quitCalls
         /\ process' = IF closed = "ok" THEN "terminated" ELSE process
         /\ webdriver' = "None"
         /\ utils' = "None"

(* setup_browser's handler: except Exception: self.cleanup(); raise        *)
SetupFailed(step) ==
    /\ \E closed \in CallOutcomes, quitted \in CallOutcomes :
         cleanup(closed, quitted)
    /\ bpc' = "ctor_raised"
    /\ failedStep' = step

(* self.webdriver = self.browserSetup()                                    *)
BrowserSetup ==
    /\ SessFrame
    /\ bpc = "init"
    /\ \E r \in CallOutcomes :
         IF r = "ok"
         THEN /\ webdriver' = "driver"
              /\ process' = "running"
              /\ bpc' = "launched"
              /\ UNCHANGED <<utils, closeCalls, quitCalls, failedStep>>
         ELSE SetupFailed("launch")
    /\ UNCHANGED <<discover, listeners, initialApplied, targets, exitPath>>

(* _setup_cdp_listeners: execute_cdp_cmd('Target.setDiscoverTargets', ...) *)
SetDiscoverTargets ==
    /\ SessFrame
    /\ bpc = "launched"
    /\ \E r \in CallOutcomes :
         IF r = "ok"
         THEN /\ discover' = TRUE
              /\ bpc' = "discovering"
              /\ UNCHANGED <<webdriver, utils, process, closeCalls, quitCalls,
                             failedStep>>
         ELSE SetupFailed("discover") /\ UNCHANGED discover
    /\ UNCHANGED <<listeners, initialApplied, targets, exitPath>>

(* _setup_cdp_listeners: add_cdp_listener('Target.targetCreated', handler) *)
AddCdpListener ==
    /\ SessFrame
    /\ bpc = "discovering"
    /\ \E r \in CallOutcomes :
         IF r = "ok"
         THEN /\ listeners' = listeners + 1
              /\ bpc' = "listening"
              /\ UNCHANGED <<webdriver, utils, process, closeCalls, quitCalls,
                             failedStep>>
         ELSE SetupFailed("listener") /\ UNCHANGED listeners
    /\ UNCHANGED <<discover, initialApplied, targets, exitPath>>

(* _apply_cdp_settings: "for command, params in cdp_commands:              *)
(* execute_cdp_cmd(...)".  done is the number of commands that ran before  *)
(* one raised; NumCdpCommands when none did.                               *)
ApplyCdpSettings(done) == done

(* _setup_cdp_listeners: self._apply_cdp_settings() on the initial tab     *)
ApplyInitialTab ==
    /\ SessFrame
    /\ bpc = "listening"
    /\ \E done \in 0..NumCdpCommands :
         /\ initialApplied' = ApplyCdpSettings(done)
         /\ IF done = NumCdpCommands
            THEN /\ bpc' = "applied"
                 /\ UNCHANGED <<webdriver, utils, process, closeCalls,
                                quitCalls, failedStep>>
            ELSE SetupFailed("apply")
    /\ UNCHANGED <<discover, listeners, targets, exitPath>>

(* self.utils = Utils(self.webdriver); __init__ returns and __enter__      *)
(* hands the object to the with block.  Utils.__init__ suppresses every    *)
(* exception of its body.                                                  *)
BuildUtils ==
    /\ SessFrame
    /\ bpc = "applied"
    /\ utils' = "Utils"
    /\ bpc' = "open"
    /\ UNCHANGED <<webdriver, process, closeCalls, quitCalls, discover,
                   listeners, initialApplied, targets, failedStep, exitPath>>

(* handle_target_created(target): the settings are applied to a target of  *)
(* type 'page' only; an exception of a command ends the handler.           *)
handle_target_created(type, done) ==
    IF type = "page" THEN ApplyCdpSettings(done) ELSE 0

(* The browser reports a new target while the session is in use; every     *)
(* registered handler runs.                                                *)
TargetCreated ==
    /\ SessFrame
    /\ bpc = "open"
    /\ Len(targets) < MaxTargets
    /\ \E type \in TargetTypes, done \in 0..NumCdpCommands :
         targets' = Append(targets,
                      [type |-> type,
                       applied |-> IF listeners > 0
                                   THEN handle_target_created(type, done)
                                   ELSE 0])
    /\ UNCHANGED <<bpc, webdriver, utils, process, closeCalls, quitCalls,
                   discover, listeners, initialApplied, failedStep, exitPath>>

(* The body of the with block ends, normally or by an exception:           *)
(* __exit__ runs cleanup and returns None, so an exception goes on.        *)
BrowserExit ==
    /\ SessFrame
    /\ bpc = "open"
    /\ \E how \in {"normal", "exception"} : exitPath' = how
    /\ \E closed \in CallOutcomes, quitted \in CallOutcomes :
         cleanup(closed, quitted)
    /\ bpc' = "exited"
    /\ UNCHANGED <<discover, listeners, initialApplied, targets, failedStep>>

SessNext ==
    \/ BrowserSetup
    \/ SetDiscoverTargets
    \/ AddCdpListener
    \/ ApplyInitialTab
    \/ BuildUtils
    \/ TargetCreated
    \/ BrowserExit

(* browser.cleanup() on an object whose cleanup has already run, in        *)
(* setup_browser's handler or in __exit__.                                 *)
CleanupCall ==
    /\ SessFrame
    /\ bpc \in {"ctor_raised", "exited", "cleaned_again"}
    /\ \E closed \in CallOutcomes, quitted \in CallOutcomes :
         cleanup(closed, quitted)
    /\ bpc' = "cleaned_again"
    /\ UNCHANGED <<discover, listeners, initialApplied, targets, failedStep,
                   exitPath>>

CleanupNext ==
    \/ BrowserSetup
    \/ SetDiscoverTargets
    \/ AddCdpListener
    \/ ApplyInitialTab
    \/ BuildUtils
    \/ TargetCreated
    \/ BrowserExit
    \/ CleanupCall


-----------------------------------------------------------------------------
(* Activities.completeActivities, doActivity and Utils.resetTabs.          *)

(* Longest catalog the dashboard returns, and most windows open at once.   *)
MaxCatalog == 2

MaxTabs == 3

(* Titles are sequences of characters.  NBSP is U+00A0 and ZWSP is U+200B, *)
(* the two characters cleanupActivityTitle rewrites.                       *)
NBSP == "U+00A0"

ZWSP == "U+200B"

Get50Entries ==
    <<"G", "e", "t", " ", "5", "0", " ", "e", "n", "t", "r", "i", "e",
      "s", " ", "p", "l", "u", "s", " ", "1", "0", "0", "0", " ", "p",
      "o", "i", "n", "t", "s", "!">>

SafeguardInfo ==
    <<"S", "a", "f", "e", "g", "u", "a", "r", "d", " ", "y", "o", "u",
      "r", " ", "f", "a", "m", "i", "l", "y", "'", "s", " ", "i", "n",
      "f", "o">>

WhatTimeIsIt ==
    <<"W", "h", "a", "t", " ", "t", "i", "m", "e", " ", "i", "s", " ",
      "i", "t", "?">>

(* The same title as the dashboard sends it, with a no-break space and a   *)
(* zero-width space.                                                       *)
WhatTimeIsItRaw ==
    <<"W", "h", "a", "t", NBSP, "t", "i", "m", "e", " ", "i", "s", ZWSP,
      " ", "i", "t", "?">>

WhoWon ==
    <<"W", "h", "o", " ", "w", "o", "n", "?">>

DailyPoll ==
    <<"D", "a", "i", "l", "y", " ", "p", "o", "l", "l">>

QuizNight ==
    <<"Q", "u", "i", "z", " ", "n", "i", "g", "h", "t">>

(* CONFIG apprise.notify.incomplete-activity.ignore                        *)
IgnoreList == {Get50Entries, SafeguardInfo}

(* The entries of ACTIVITY_TITLE_TO_SEARCH for the titles drawn.           *)
ACTIVITY_TITLE_TO_SEARCH ==
    [t \in {WhatTimeIsIt, WhoWon} |->
        IF t = WhatTimeIsIt THEN "china time" ELSE "braves score"]

(* Activities as the dashboard lists them.                                 *)
Activity(title, complete, progress, max, type, lock) ==
    [title |-> title, complete |-> complete, pointProgress |-> progress,
     pointProgressMax |-> max, promotionType |-> type,
     exclusiveLockedFeatureStatus |-> lock]

SampleActivities ==
    { Activity(DailyPoll, TRUE, 10, 10, "quiz", "unlocked"),
      Activity(WhatTimeIsIt, FALSE, 0, 5, "urlreward", "unlocked"),
      Activity(SafeguardInfo, FALSE, 0, 5, "urlreward", "unlocked") }

RECURSIVE SeqsUpTo(_, _)
SeqsUpTo(S, n) ==
    IF n = 0 THEN {<<>>}
    ELSE LET shorter == SeqsUpTo(S, n - 1)
         IN  shorter \cup {Append(q, x) : q \in shorter, x \in S}

Catalogs == SeqsUpTo(SampleActivities, MaxCatalog)

(* How a call of Utils.goToRewards ends: it returns once current_url is    *)
(* REWARDS_URL, it raises when get or refresh raises, and it never         *)
(* returns while current_url stays different (the loop of DashGtrRefresh). *)
GoToRewardsOutcomes == {"returned", "raised", "diverges"}

ActStart ==
    /\ apc = "fetch_daily"
    /\ astep = "begin"
    /\ dailySetPromotions = <<>>
    /\ morePromotions = <<>>
    /\ idx = 0
    /\ handles = <<1>>
    /\ curr = 1
    /\ tabUrl = [h \in {1} |-> REWARDS_URL]
    /\ attempted = <<>>
    /\ opened = FALSE
    /\ procOutcome = "none"
    /\ doResult = "none"
    /\ abortedBy = "none"
    /\ clicked = FALSE
    /\ modalButton = "none"
    /\ protocol = "none"
    /\ typed = "none"
    /\ reportEnabled \in BOOLEAN
    /\ reread = <<>>
    /\ incompleteActivities = {}
    /\ notifications = 0

ActIdle ==
    /\ apc = "idle"
    /\ astep = "begin"
    /\ dailySetPromotions = <<>>
    /\ morePromotions = <<>>
    /\ idx = 0
    /\ handles = <<1>>
    /\ curr = 1
    /\ tabUrl = [h \in {1} |-> REWARDS_URL]
    /\ attempted = <<>>
    /\ opened = FALSE
    /\ procOutcome = "none"
    /\ doResult = "none"
    /\ abortedBy = "none"
    /\ clicked = FALSE
    /\ modalButton = "none"
    /\ protocol = "none"
    /\ typed = "none"
    /\ reportEnabled = FALSE
    /\ reread = <<>>
    /\ incompleteActivities = {}
    /\ notifications = 0

(* The report's variables change in the report step only.                  *)
ActFrame == UNCHANGED <<dashVars, sessVars, rsVars, extraVars, reportVars>>

(* The catalog the current for loop runs over.                             *)
CurrentCatalog == IF apc = "daily" THEN dailySetPromotions ELSE morePromotions

(* isDailySet: the daily-set entries carry attributes.daily_set_date.      *)
isDailySet == apc = "daily"

(* A for loop that ends after the first activity it has run.               *)
AfterFirstActivity ==
    /\ idx' = 0
    /\ apc' = IF apc = "daily" THEN "fetch_more" ELSE "report"

(* The for loop's next position after the activity at idx: the next        *)
(* activity, or the statement after the loop.                              *)
AfterActivity ==
    IF idx < Len(CurrentCatalog)
    THEN /\ idx' = idx + 1
         /\ apc' = apc
    ELSE /\ idx' = 0
         /\ apc' = IF apc = "daily" THEN "fetch_more" ELSE "report"

(* dailySetPromotions = getDailySetPromotions(); goToRewards()             *)
(* The fetch raises when getDashboardData raises or returns None; both     *)
(* calls may fail to return.                                               *)
FetchDailySet ==
    /\ ActFrame
    /\ apc = "fetch_daily"
    /\ \E r \in GoToRewardsOutcomes :
         CASE r = "returned" ->
                /\ \E c \in Catalogs : dailySetPromotions' = c
                /\ apc' = IF dailySetPromotions' = <<>>
                          THEN "fetch_more" ELSE "daily"
                /\ idx' = IF dailySetPromotions' = <<>> THEN 0 ELSE 1
                /\ UNCHANGED abortedBy
           [] r = "raised" ->
                /\ apc' = "aborted" /\ abortedBy' = "fetch"
                /\ UNCHANGED <<dailySetPromotions, idx>>
           [] OTHER ->
                /\ apc' = "hung"
                /\ UNCHANGED <<dailySetPromotions, idx, abortedBy>>
    /\ UNCHANGED <<astep, morePromotions, handles, curr, tabUrl, attempted,
                   opened, procOutcome, doResult, clicked, modalButton,
                   protocol, typed>>

(* morePromotions = getMorePromotions(); goToRewards()                     *)
FetchMorePromotions ==
    /\ ActFrame
    /\ apc = "fetch_more"
    /\ \E r \in GoToRewardsOutcomes :
         CASE r = "returned" ->
                /\ \E c \in Catalogs : morePromotions' = c
                /\ apc' = IF morePromotions' = <<>> THEN "report" ELSE "more"
                /\ idx' = IF morePromotions' = <<>> THEN 0 ELSE 1
                /\ UNCHANGED abortedBy
           [] r = "raised" ->
                /\ apc' = "aborted" /\ abortedBy' = "fetch"
                /\ UNCHANGED <<morePromotions, idx>>
           [] OTHER ->
                /\ apc' = "hung"
                /\ UNCHANGED <<morePromotions, idx, abortedBy>>
    /\ UNCHANGED <<astep, dailySetPromotions, handles, curr, tabUrl,
                   attempted, opened, procOutcome, doResult, clicked,
                   modalButton, protocol, typed>>

(* activityTitle.replace("\u200b", "").replace("\xa0", " ")                *)
cleanupActivityTitle(title) ==
    LET NotZwsp(c) == c # ZWSP
        stripped == SelectSeq(title, NotZwsp)
    IN  [i \in 1..Len(stripped) |->
            IF stripped[i] = NBSP THEN " " ELSE stripped[i]]

(* The early returns, but never taken for a title of the lookup table.     *)
SkippedUnlessInLookupTable(activity) ==
    /\ cleanupActivityTitle(activity.title)
          \notin DOMAIN ACTIVITY_TITLE_TO_SEARCH
    /\ \/ activity.complete = TRUE
       \/ activity.pointProgressMax = 0
       \/ activity.exclusiveLockedFeatureStatus = "locked"
       \/ cleanupActivityTitle(activity.title) \in IgnoreList

(* doActivity's two early returns.                                         *)
Skipped(activity) ==
    \/ activity.complete = TRUE
    \/ activity.pointProgressMax = 0
    \/ activity.exclusiveLockedFeatureStatus = "locked"
    \/ cleanupActivityTitle(activity.title) \in IgnoreList

(* The handle of a window the browser opens: the least one not in use.     *)
NewHandle(hs) ==
    CHOOSE h \in 1..(Len(hs) + 1) :
        /\ \A i \in 1..Len(hs) : hs[i] # h
        /\ \A g \in 1..(Len(hs) + 1) :
             (\A i \in 1..Len(hs) : hs[i] # g) => h <= g

(* Utils.switchToNewTab: window_handles[1] becomes current when there is   *)
(* more than one window.                                                   *)
switchToNewTab(hs, c) == IF Len(hs) > 1 THEN hs[2] ELSE c

(* The windows after the browser has (newTab) or has not opened one.       *)
WithNewTab(hs, newTab) == IF newTab THEN Append(hs, NewHandle(hs)) ELSE hs

UrlsWithNewTab(hs, newTab) ==
    IF newTab
    THEN [h \in DOMAIN tabUrl \cup {NewHandle(hs)} |->
            IF h \in DOMAIN tabUrl THEN tabUrl[h] ELSE "activity"]
    ELSE tabUrl

(* doActivity up to the call of _process_activity_with_heartbeat: the      *)
(* skip checks, then openDailySetActivity (click the card, then            *)
(* switchToNewTab) or openMorePromotionsActivity (click the card).  The    *)
(* two early returns leave doActivity at once; an exception of the         *)
(* opening is caught by "except Exception" and resetTabs follows.  The     *)
(* card's click may or may not have been issued when the opening raises.   *)
DoActivityOpen ==
    /\ ActFrame
    /\ apc \in {"daily", "more"}
    /\ astep = "begin"
    /\ attempted' = Append(attempted, <<apc, idx>>)
    /\ modalButton' = "none"
    /\ protocol' = "none"
    /\ typed' = "none"
    /\ IF Skipped(CurrentCatalog[idx])
       THEN /\ opened' = FALSE
            /\ clicked' = FALSE
            /\ procOutcome' = "skipped"
            /\ doResult' = "returned"
            /\ AfterActivity
            /\ UNCHANGED <<astep, handles, curr, tabUrl, abortedBy>>
       ELSE /\ opened' = TRUE
            /\ doResult' = "none"
            /\ \E r \in CallOutcomes, newTab \in BOOLEAN, c \in BOOLEAN :
                 IF r = "ok"
                 THEN /\ newTab => Len(handles) < MaxTabs
                      /\ c = TRUE
                      /\ clicked' = TRUE
                      /\ handles' = WithNewTab(handles, newTab)
                      /\ tabUrl' = UrlsWithNewTab(handles, newTab)
                      /\ curr' = IF isDailySet
                                 THEN switchToNewTab(handles', curr)
                                 ELSE curr
                      /\ astep' = "process"
                      /\ procOutcome' = "opened"
                 ELSE /\ newTab = FALSE
                      /\ clicked' = c
                      /\ astep' = "reset"
                      /\ procOutcome' = "raised"
                      /\ UNCHANGED <<handles, curr, tabUrl>>
            /\ UNCHANGED <<apc, idx, abortedBy>>
    /\ UNCHANGED <<dailySetPromotions, morePromotions>>

(* _process_activity_with_heartbeat.  The modal's close button: when it   *)
(* is displayed it is clicked and the function returns; when it is not     *)
(* displayed switchToNewTab runs; an exception of the lookup or of the     *)
(* click is passed over.  Then the completion protocol runs, during which  *)
(* the browser may open a window.  An exception of the protocol is logged  *)
(* and raised again, and caught in doActivity.                             *)
ModalOutcomes == {"clicked", "click_raised", "not_displayed", "absent"}

(* waitUntilClickable(By.ID, "sb_form_q") and the click on what it found:  *)
(* the search bar is found and clicked, the wait times out (suppressed,    *)
(* the local searchbar stays unbound), or something else is raised.        *)
SearchbarOutcomes == {"found", "timeout", "raised"}

(* "sub in title" of two Python strings.                                   *)
Contains(title, sub) ==
    \E i \in 1..Len(title) :
        /\ i + Len(sub) - 1 <= Len(title)
        /\ SubSeq(title, i, i + Len(sub) - 1) = sub

(* The if / elif chain with the lookup-table test moved behind the test    *)
(* of promotionType "urlreward".                                           *)
DispatchUrlrewardFirst(activityTitle, activity) ==
    IF Contains(activityTitle, <<"p", "o", "l", "l">>) THEN "completeSurvey"
    ELSE IF activity.promotionType = "urlreward" THEN "completeSearch"
    ELSE IF activityTitle \in DOMAIN ACTIVITY_TITLE_TO_SEARCH
         THEN "send_keys"
    ELSE IF activity.promotionType = "quiz"
         THEN CASE activity.pointProgressMax = 10 -> "completeABC"
                [] activity.pointProgressMax \in {30, 40} -> "completeQuiz"
                [] activity.pointProgressMax = 50 -> "completeThisOrThat"
                [] OTHER -> "none"
    ELSE "completeSearch"

(* The if / elif chain that picks the completion: what the branch taken    *)
(* calls, "send_keys" for typing the mapped query into the search bar,     *)
(* "none" for a quiz whose pointProgressMax has no branch.                 *)
Dispatch(activityTitle, activity) ==
    IF activityTitle \in DOMAIN ACTIVITY_TITLE_TO_SEARCH THEN "send_keys"
    ELSE IF Contains(activityTitle, <<"p", "o", "l", "l">>)
         THEN "completeSurvey"
    ELSE IF activity.promotionType = "urlreward" THEN "completeSearch"
    ELSE IF activity.promotionType = "quiz"
         THEN CASE activity.pointProgressMax = 10 -> "completeABC"
                [] activity.pointProgressMax \in {30, 40} -> "completeQuiz"
                [] activity.pointProgressMax = 50 -> "completeThisOrThat"
                [] OTHER -> "none"
    ELSE "completeSearch"

DoActivityProcess ==
    /\ ActFrame
    /\ apc \in {"daily", "more"}
    /\ astep = "process"
    /\ astep' = "reset"
    /\ \E modal \in ModalOutcomes, sb \in SearchbarOutcomes,
          r \in CallOutcomes, newTab \in BOOLEAN :
         LET activity == CurrentCatalog[idx]
             activityTitle == cleanupActivityTitle(activity.title)
             chosen == Dispatch(activityTitle, activity)
             \* searchbar.send_keys with searchbar unbound
             unbound == chosen = "send_keys" /\ sb = "timeout"
         IN  /\ modalButton' = modal
             /\ IF modal = "clicked"
                THEN /\ r = "ok" /\ newTab = FALSE /\ sb = "found"
                     /\ procOutcome' = "modal"
                     /\ protocol' = "none"
                     /\ typed' = "none"
                     /\ UNCHANGED <<handles, curr, tabUrl>>
                ELSE /\ newTab => Len(handles) < MaxTabs
                     /\ (sb = "raised" \/ unbound) => (r = "ok" /\ ~newTab)
                     /\ handles' = WithNewTab(handles, newTab)
                     /\ tabUrl' = UrlsWithNewTab(handles, newTab)
                     /\ curr' = IF modal = "not_displayed"
                                THEN switchToNewTab(handles, curr)
                                ELSE curr
                     /\ IF sb = "raised" \/ unbound
                        THEN /\ procOutcome' = "raised"
                             /\ protocol' = "none"
                             /\ typed' = "none"
                        ELSE /\ procOutcome' =
                                  IF r = "ok" THEN "completed" ELSE "raised"
                             /\ protocol' = chosen
                             /\ typed' =
                                  IF chosen = "send_keys"
                                  THEN ACTIVITY_TITLE_TO_SEARCH[activityTitle]
                                  ELSE "none"
    /\ UNCHANGED <<apc, dailySetPromotions, morePromotions, idx, attempted,
                   opened, doResult, abortedBy, clicked>>

(* CloseOthers taking the first window, not the current one, as the one    *)
(* to keep.                                                                *)
CloseOthersThanFirst(hs, c, k) ==
    LET IsOther(h) == h # hs[1]
        others == SelectSeq(hs, IsOther)
        closed == {others[i] : i \in 1..k}
        Kept(h) == h \notin closed
    IN  SelectSeq(hs, Kept)

(* The windows left when resetTabs has closed the first k windows other    *)
(* than c, in the order of window_handles.                                 *)
CloseOthers(hs, c, k) ==
    LET IsOther(h) == h # c
        others == SelectSeq(hs, IsOther)
        closed == {others[i] : i \in 1..k}
        Kept(h) == h \notin closed
    IN  SelectSeq(hs, Kept)

NumOthers(hs, c) == Cardinality({i \in 1..Len(hs) : hs[i] # c})

(* Utils.resetTabs, called after doActivity's try statement: every window  *)
(* but the current one is closed, then goToRewards runs in the current     *)
(* one.  k is the number of windows closed before a webdriver call raised  *)
(* (all of them when none did).  The call is outside the try statement:    *)
(* its exception leaves doActivity and ends completeActivities.            *)
DoActivityReset ==
    /\ ActFrame
    /\ apc \in {"daily", "more"}
    /\ astep = "reset"
    /\ astep' = "begin"
    /\ \E k \in 0..NumOthers(handles, curr), r \in GoToRewardsOutcomes :
         /\ handles' = CloseOthers(handles, curr, k)
         /\ IF k < NumOthers(handles, curr)
            THEN /\ r = "raised"
                 /\ tabUrl' = [h \in {handles'[i] : i \in 1..Len(handles')}
                                 |-> tabUrl[h]]
                 /\ doResult' = "raised"
                 /\ apc' = "aborted" /\ abortedBy' = "doActivity"
                 /\ UNCHANGED idx
            ELSE /\ tabUrl' = [h \in {curr} |->
                                 IF r = "returned" THEN REWARDS_URL
                                 ELSE tabUrl[curr]]
                 /\ CASE r = "returned" ->
                           /\ doResult' = "returned"
                           /\ AfterActivity
                           /\ UNCHANGED abortedBy
                      [] r = "raised" ->
                           /\ doResult' = "raised"
                           /\ apc' = "aborted" /\ abortedBy' = "doActivity"
                           /\ UNCHANGED idx
                      [] OTHER ->
                           /\ doResult' = "none"
                           /\ apc' = "hung"
                           /\ UNCHANGED <<idx, abortedBy>>
    /\ UNCHANGED <<dailySetPromotions, morePromotions, curr, attempted,
                   opened, procOutcome, clicked, modalButton, protocol,
                   typed>>

(* Longest catalog a read for the report returns.                          *)
MaxReread == 1

(* Activities the catalogs hold when they are read again.                  *)
ReportActivities ==
    SampleActivities \cup
        { Activity(WhatTimeIsItRaw, FALSE, 0, 5, "urlreward", "unlocked"),
          Activity(WhatTimeIsIt, FALSE, 3, 5, "urlreward", "unlocked"),
          Activity(QuizNight, FALSE, 10, 30, "quiz", "unlocked") }

RereadCatalogs == SeqsUpTo(ReportActivities, MaxReread)

(* The entries of the dict without the pops of the ignore list.            *)
IncompleteWithIgnored(list, ignore) ==
    LET inc == {i \in 1..Len(list) :
                  list[i].pointProgress < list[i].pointProgressMax}
        titles == {cleanupActivityTitle(list[i].title) : i \in inc}
        last(t) == CHOOSE i \in inc :
                     /\ cleanupActivityTitle(list[i].title) = t
                     /\ \A j \in inc :
                          cleanupActivityTitle(list[j].title) = t => j <= i
    IN  {[title |-> t,
          promotionType |-> list[last(t)].promotionType,
          pointProgress |-> list[last(t)].pointProgress,
          pointProgressMax |-> list[last(t)].pointProgressMax] :
         t \in titles}

(* The dict incompleteActivities after both loops: one entry per cleaned   *)
(* title of an activity with pointProgress < pointProgressMax, a later     *)
(* activity of the same title replacing an earlier one, and the titles of  *)
(* the ignore list popped.                                                 *)
Incomplete(list, ignore) ==
    LET inc == {i \in 1..Len(list) :
                  list[i].pointProgress < list[i].pointProgressMax}
        titles == {cleanupActivityTitle(list[i].title) : i \in inc}
        last(t) == CHOOSE i \in inc :
                     /\ cleanupActivityTitle(list[i].title) = t
                     /\ \A j \in inc :
                          cleanupActivityTitle(list[j].title) = t => j <= i
    IN  {[title |-> t,
          promotionType |-> list[last(t)].promotionType,
          pointProgress |-> list[last(t)].pointProgress,
          pointProgressMax |-> list[last(t)].pointProgressMax] :
         t \in titles \ ignore}

(* Both for loops are over: when the report is enabled both catalogs are   *)
(* read again (each read may raise or not return, as getDashboardData      *)
(* may), the dict is built, and sendNotification is called when it is not  *)
(* empty.                                                                  *)
CompleteActivitiesReport ==
    /\ UNCHANGED <<dashVars, sessVars, rsVars, extraVars>>
    /\ apc = "report"
    /\ IF ~reportEnabled
       THEN /\ apc' = "done"
            /\ UNCHANGED <<abortedBy, reread, incompleteActivities,
                           notifications>>
       ELSE \E r \in GoToRewardsOutcomes :
              CASE r = "returned" ->
                     \E d \in RereadCatalogs, m \in RereadCatalogs :
                       /\ reread' = d \o m
                       /\ incompleteActivities' =
                            Incomplete(d \o m, IgnoreList)
                       /\ notifications' =
                            IF incompleteActivities' # {}
                            THEN notifications + 1 ELSE notifications
                       /\ apc' = "done"
                       /\ UNCHANGED abortedBy
                [] r = "raised" ->
                     /\ apc' = "aborted" /\ abortedBy' = "report"
                     /\ UNCHANGED <<reread, incompleteActivities,
                                    notifications>>
                [] OTHER ->
                     /\ apc' = "hung"
                     /\ UNCHANGED <<abortedBy, reread, incompleteActivities,
                                    notifications>>
    /\ UNCHANGED <<astep, dailySetPromotions, morePromotions, idx, handles,
                   curr, tabUrl, attempted, opened, procOutcome, doResult,
                   clicked, modalButton, protocol, typed, reportEnabled>>

(* One call of doActivity, on any activity the dashboard may list, as the  *)
(* only entry of the catalog a for loop of completeActivities has begun.   *)
ClassTitles == {WhatTimeIsIt, WhatTimeIsItRaw, WhoWon, DailyPoll, QuizNight,
                SafeguardInfo}

ClassMaxes == {0, 5, 10, 20, 30, 40, 50}

ClassTypes == {"urlreward", "quiz", "welcometour"}

ClassLocks == {"locked", "unlocked"}

ClassActivities ==
    { Activity(t, c, IF c THEN m ELSE 0, m, ty, l) :
        t \in ClassTitles, c \in BOOLEAN, m \in ClassMaxes,
        ty \in ClassTypes, l \in ClassLocks }

ClassStart ==
    /\ \E a \in ClassActivities, cat \in {"daily", "more"} :
         /\ apc = cat
         /\ dailySetPromotions = IF cat = "daily" THEN <<a>> ELSE <<>>
         /\ morePromotions = IF cat = "more" THEN <<a>> ELSE <<>>
    /\ astep = "begin"
    /\ idx = 1
    /\ handles = <<1>>
    /\ curr = 1
    /\ tabUrl = [h \in {1} |-> REWARDS_URL]
    /\ attempted = <<>>
    /\ opened = FALSE
    /\ procOutcome = "none"
    /\ doResult = "none"
    /\ abortedBy = "none"
    /\ clicked = FALSE
    /\ modalButton = "none"
    /\ protocol = "none"
    /\ typed = "none"
    /\ reportEnabled \in BOOLEAN
    /\ reread = <<>>
    /\ incompleteActivities = {}
    /\ notifications = 0

ClassNext ==
    \/ DoActivityOpen
    \/ DoActivityProcess
    \/ DoActivityReset

ActNext ==
    \/ FetchDailySet
    \/ FetchMorePromotions
    \/ DoActivityOpen
    \/ DoActivityProcess
    \/ DoActivityReset
    \/ CompleteActivitiesReport

-----------------------------------------------------------------------------
(* Browser.getRemainingSearches.                                           *)

(* Largest number of points still to earn on the desktop counter and on    *)
(* the mobile counter of the dashboards drawn.                             *)
MaxRemaining == 18

MaxMobileRemaining == 6

PcMaxes == {30, 50, 90, 100, 102, 150, 169, 170, 200}

MobileMaxes == {60, 100}

Levels == {"Level1", "Level2", "Level3"}

(* How self.utils.getDashboardData() ended.                                *)
FetchOutcomes == {"dict", "None", "raised"}

Raised == [kind |-> "raise", desktop |-> 0, mobile |-> 0, value |-> 0]

Pending == [kind |-> "pending", desktop |-> 0, mobile |-> 0, value |-> 0]

(* The table of lines 627-630 with 102 left out of its first list.         *)
searchPointsWithout102(pointProgressMax) ==
    IF pointProgressMax \in {30, 90} THEN 3
    ELSE IF pointProgressMax \in {50, 150} \/ pointProgressMax >= 170 THEN 5
    ELSE 1

(* searchPoints as set from a pointProgressMax: 1 unless a branch of the   *)
(* if / elif assigns it.                                                   *)
searchPoints(pointProgressMax) ==
    IF pointProgressMax \in {30, 90, 102} THEN 3
    ELSE IF pointProgressMax \in {50, 150} \/ pointProgressMax >= 170 THEN 5
    ELSE 1

(* The assert statements without their test, as when asserts are off.      *)
AssertSkipped(pointsRemaining, points) == TRUE

(* assert pointsRemaining % searchPoints == 0                              *)
AssertDivisible(pointsRemaining, points) == pointsRemaining % points = 0

(* int(pointsRemaining / searchPoints)                                     *)
SearchesFor(pointsRemaining, points) == pointsRemaining \div points

(* The if / elif / else on activeLevel without its else branch.            *)
EveryLevelHandled(activeLevel) == TRUE

(* The if / elif on activeLevel has a branch for it; the else raises.      *)
LevelHandled(activeLevel) == activeLevel \in {"Level1", "Level2"}

(* The local searchPoints, had its pointProgressMax been read from the     *)
(* mobile counter.                                                         *)
searchPointsOfMobileCounter(in) == searchPoints(in.mobMax)

(* The one local searchPoints of a call: pointProgressMax is read from     *)
(* counters["pcSearch"][0] and from nowhere else.                          *)
searchPointsOfCall(in) == searchPoints(in.pcMax)

(* The call, from the dashboard object on.  Subscripting None raises, and  *)
(* so does counters["mobileSearch"] on a dashboard without that counter.   *)
getRemainingSearches(in) ==
    LET points == searchPointsOfCall(in)
        pcPointsRemaining == in.pcMax - in.pcProgress
        mobilePointsRemaining == in.mobMax - in.mobProgress
        remainingDesktopSearches == SearchesFor(pcPointsRemaining, points)
        remainingMobileSearches ==
            IF in.activeLevel = "Level2"
            THEN SearchesFor(mobilePointsRemaining, points)
            ELSE 0
    IN  IF in.fetched # "dict" THEN Raised
        ELSE IF ~AssertDivisible(pcPointsRemaining, points) THEN Raised
        ELSE IF in.activeLevel = "Level2" /\ ~in.mobPresent THEN Raised
        ELSE IF in.activeLevel = "Level2"
                /\ ~AssertDivisible(mobilePointsRemaining, points) THEN Raised
        ELSE IF ~LevelHandled(in.activeLevel) THEN Raised
        ELSE IF in.desktopAndMobile
             THEN [kind |-> "RemainingSearches",
                   desktop |-> remainingDesktopSearches,
                   mobile |-> remainingMobileSearches, value |-> 0]
        ELSE IF in.mobile
             THEN [kind |-> "int", desktop |-> 0, mobile |-> 0,
                   value |-> remainingMobileSearches]
        ELSE [kind |-> "int", desktop |-> 0, mobile |-> 0,
              value |-> remainingDesktopSearches]

(* The locals of the call when it ended.  searchPoints = 1 is assigned     *)
(* once getDashboardData has returned; the mobile counter is subscripted   *)
(* only in the Level2 branch, which the desktop assert precedes.           *)
LocalsAtEnd(in) ==
    [searchPoints |-> IF in.fetched = "raised" THEN 0
                      ELSE IF in.fetched = "None" THEN 1
                      ELSE searchPointsOfCall(in),
     mobileRead |-> /\ in.fetched = "dict"
                    /\ AssertDivisible(in.pcMax - in.pcProgress,
                                       searchPointsOfCall(in))
                    /\ in.activeLevel = "Level2"]

NoLocals == [searchPoints |-> 0, mobileRead |-> FALSE]

RsStart ==
    /\ \E f \in FetchOutcomes, pm \in PcMaxes, pd \in 0..MaxRemaining,
          mm \in MobileMaxes, md \in 0..MaxMobileRemaining, lv \in Levels,
          dm \in BOOLEAN, mb \in BOOLEAN, mp \in BOOLEAN :
         rsIn = [fetched |-> f, pcMax |-> pm, pcProgress |-> pm - pd,
                 mobMax |-> mm, mobProgress |-> mm - md, mobPresent |-> mp,
                 activeLevel |-> lv, desktopAndMobile |-> dm, mobile |-> mb]
    /\ rsOut = Pending
    /\ rsLocals = NoLocals

RsIdle ==
    /\ rsIn = [fetched |-> "dict", pcMax |-> 30, pcProgress |-> 30,
               mobMax |-> 60, mobProgress |-> 60, mobPresent |-> TRUE,
               activeLevel |-> "Level1", desktopAndMobile |-> FALSE,
               mobile |-> FALSE]
    /\ rsOut = [kind |-> "idle", desktop |-> 0, mobile |-> 0, value |-> 0]
    /\ rsLocals = NoLocals

RsCall ==
    /\ rsOut.kind = "pending"
    /\ rsOut' = getRemainingSearches(rsIn)
    /\ rsLocals' = LocalsAtEnd(rsIn)
    /\ UNCHANGED <<rsIn, dashVars, sessVars, actVars, extraVars>>

RsNext == RsCall

-----------------------------------------------------------------------------
(* getAnswerCode(key, string) of src/src/utils.py.  Strings are sequences  *)
(* of characters; str() and int(.., 16) are computed digit by digit.       *)

(* Longest option text and longest key drawn.                              *)
MaxTextLen == 3

MaxKeyLen == 3

TextChars == {"a", "B", "0", "~"}

(* Characters of a key: hexadecimal digits of both cases, and one that is  *)
(* none.                                                                   *)
KeyChars == {"0", "9", "a", "F", "G"}

(* ord(c) of the characters drawn.                                         *)
ord(c) ==
    CASE c = "a" -> 97
      [] c = "B" -> 66
      [] c = "0" -> 48
      [] c = "~" -> 126
      [] c = "P" -> 80
      [] c = "R" -> 82
      [] c = "e" -> 101
      [] c = "i" -> 105
      [] c = "m" -> 109
      [] c = "o" -> 111
      [] c = "r" -> 114
      [] c = "s" -> 115

HexDigits == <<"0", "1", "2", "3", "4", "5", "6", "7", "8", "9",
               "a", "b", "c", "d", "e", "f">>

UpperHexDigits == <<"0", "1", "2", "3", "4", "5", "6", "7", "8", "9",
                    "A", "B", "C", "D", "E", "F">>

IsHexDigit(c) ==
    \E i \in 1..16 : HexDigits[i] = c \/ UpperHexDigits[i] = c

(* The value int(.., 16) gives a digit, in either case.                    *)
HexValue(c) ==
    (CHOOSE i \in 1..16 : HexDigits[i] = c \/ UpperHexDigits[i] = c) - 1

(* key[-2:] of a key of at least two characters.                           *)
LastTwo(key) == SubSeq(key, Len(key) - 1, Len(key))

(* The two characters read in base 10.                                     *)
int10(pair) == 10 * HexValue(pair[1]) + HexValue(pair[2])

(* int(pair, 16) of two hexadecimal digits.                                *)
int16(pair) == 16 * HexValue(pair[1]) + HexValue(pair[2])

(* The sum with every character code weighted by its position.             *)
RECURSIVE SumOrdByPosition(_)
SumOrdByPosition(string) ==
    IF string = <<>> THEN 0
    ELSE Len(string) * ord(string[Len(string)])
         + SumOrdByPosition(SubSeq(string, 1, Len(string) - 1))

(* sum(ord(string[i]) for i in range(len(string)))                         *)
RECURSIVE SumOrd(_)
SumOrd(string) ==
    IF string = <<>> THEN 0
    ELSE ord(Head(string)) + SumOrd(Tail(string))

DecimalDigits == <<"0", "1", "2", "3", "4", "5", "6", "7", "8", "9">>

(* str(t) of a natural number: its decimal digits, most significant first. *)
RECURSIVE str(_)
str(t) ==
    IF t < 10 THEN <<DecimalDigits[t + 1]>>
    ELSE Append(str(t \div 10), DecimalDigits[(t % 10) + 1])

ValueError == [kind |-> "ValueError", value |-> <<>>]

(* int(key[-2:], 16) raises ValueError on a character that is no digit.    *)
getAnswerCode(key, string) ==
    IF \E i \in 1..2 : ~IsHexDigit(LastTwo(key)[i]) THEN ValueError
    ELSE [kind |-> "str",
          value |-> str(SumOrd(string) + int16(LastTwo(key)))]

SeqsFromTo(S, lo, hi) == {q \in SeqsUpTo(S, hi) : Len(q) >= lo}

CodeStart ==
    /\ acKey \in SeqsFromTo(KeyChars, 2, MaxKeyLen)
    /\ acText \in SeqsUpTo(TextChars, MaxTextLen)
    /\ acOut = [kind |-> "pending", value |-> <<>>]

CodeIdle ==
    /\ acKey = <<"0", "0">>
    /\ acText = <<>>
    /\ acOut = [kind |-> "idle", value |-> <<>>]

CodeFrame ==
    UNCHANGED <<dashVars, sessVars, actVars, rsVars, geoVars, lcVars,
                moreVars>>

CodeCall ==
    /\ CodeFrame
    /\ acOut.kind = "pending"
    /\ acOut' = getAnswerCode(acKey, acText)
    /\ UNCHANGED <<acKey, acText>>

CodeNext == CodeCall

-----------------------------------------------------------------------------
(* The device geometry of Browser._apply_cdp_settings and the profile      *)
(* store (getBrowserConfig / saveBrowserConfig of src/src/utils.py).       *)

(* Browser objects one account gets, and _apply_cdp_settings calls one     *)
(* Browser makes (the initial tab and the tabs opened later).              *)
MaxSessions == 2

MaxApplies == 2

(* Distance between the values of random.randint that are drawn; the two   *)
(* ends of the range are always drawn.                                     *)
SampleStride == 64

(* A config without a truthy "sizes" entry.                                *)
NoSizes == [height |-> 0, width |-> 0]

(* None: what getBrowserConfig returns when config.json does not exist,    *)
(* and a newBrowserConfig that is not to be saved.                         *)
None == [height |-> -1, width |-> -1]

(* Sizes a config.json of an earlier run holds.                            *)
StoredSizes == {[height |-> 819, width |-> 1024],
                [height |-> 1080, width |-> 1920],
                [height |-> 844, width |-> 390]}

Min(a, b) == IF a <= b THEN a ELSE b

(* random.randint(lo, hi): the values drawn; none when lo > hi, where      *)
(* randint raises ValueError.                                              *)
randint(lo, hi) ==
    {v \in lo..hi : v = hi \/ (v - lo) % SampleStride = 0}

(* int(deviceHeight * 0.7) in double precision: the product of these       *)
(* heights falls just below the integer 7 * deviceHeight / 10.             *)
RoundedBelow == {650, 660, 670, 680, 690, 700, 710, 720, 730}

IntTimes07(deviceHeight) ==
    IF deviceHeight \in RoundedBelow
    THEN (7 * deviceHeight) \div 10 - 1
    ELSE (7 * deviceHeight) \div 10

(* The upper end of the desktop height without the factor 0.8.             *)
IntTimes1(deviceWidth) == deviceWidth

(* int(deviceWidth * 0.8): exact in double precision on 1024..2560.        *)
IntTimes08(deviceWidth) == (8 * deviceWidth) \div 10

(* The sizes the else branch can generate.                                 *)
FreshSizes(mob) ==
    IF mob
    THEN UNION {{[height |-> h, width |-> w] :
                   w \in randint(320, Min(576, IntTimes07(h)))} :
                h \in randint(568, 1024)}
    ELSE UNION {{[height |-> h, width |-> w] :
                   h \in randint(768, Min(1440, IntTimes08(w)))} :
                w \in randint(1024, 2560)}

(* The test of "sizes" that never finds any.                               *)
HasNoSizesEver(config) == FALSE

(* self.browserConfig.get("sizes") is truthy.                              *)
HasSizes(config) == config # NoSizes

(* newBrowserConfig of GenerateUserAgent().userAgent(browserConfig, ..):   *)
(* a new config, without sizes, when none was stored; None otherwise.      *)
NewBrowserConfig(stored) == IF stored = None THEN NoSizes ELSE None

(* The record of a call that adds to a mobile height more than to a        *)
(* desktop one.                                                            *)
AppliedTallerMobile(sizes, fresh) ==
    [session |-> session, mobile |-> mobile,
     deviceWidth |-> sizes.width, deviceHeight |-> sizes.height,
     screenWidth |-> IF mobile THEN sizes.width ELSE sizes.width + 55,
     screenHeight |-> IF mobile THEN sizes.height + 164
                      ELSE sizes.height + 151,
     fresh |-> fresh, stored |-> configFile, wrote |-> fresh]

(* One _apply_cdp_settings call as the record kept of it.                  *)
Applied(sizes, fresh) ==
    [session |-> session, mobile |-> mobile,
     deviceWidth |-> sizes.width, deviceHeight |-> sizes.height,
     screenWidth |-> IF mobile THEN sizes.width ELSE sizes.width + 55,
     screenHeight |-> IF mobile THEN sizes.height + 146
                      ELSE sizes.height + 151,
     fresh |-> fresh, stored |-> configFile, wrote |-> fresh]

AppliesOfSession ==
    Cardinality({i \in 1..Len(applied) : applied[i].session = session})

GeoStart ==
    /\ gpc = "load"
    /\ session = 1
    /\ mobile \in BOOLEAN
    /\ browserConfig = None
    /\ configFile \in {None, NoSizes} \cup StoredSizes
    /\ applied = <<>>

GeoIdle ==
    /\ gpc = "idle"
    /\ session = 0
    /\ mobile = FALSE
    /\ browserConfig = None
    /\ configFile = None
    /\ applied = <<>>


GeoFrame ==
    UNCHANGED <<dashVars, sessVars, actVars, rsVars, codeVars, lcVars,
                moreVars>>

(* Browser.__init__, lines 50-58: the stored config is loaded, and a new   *)
(* one the generator hands back replaces it and is saved.                  *)
GeoLoad ==
    /\ GeoFrame
    /\ gpc = "load"
    /\ gpc' = "open"
    /\ LET newBrowserConfig == NewBrowserConfig(configFile)
       IN  IF newBrowserConfig # None
           THEN /\ browserConfig' = newBrowserConfig
                /\ configFile' = newBrowserConfig
           ELSE /\ browserConfig' = configFile
                /\ UNCHANGED configFile
    /\ UNCHANGED <<session, mobile, applied>>

(* _apply_cdp_settings, lines 103-126: the sizes of self.browserConfig     *)
(* are used when it has some; otherwise sizes are generated, put into      *)
(* self.browserConfig and saved.                                           *)
GeoApply ==
    /\ GeoFrame
    /\ gpc = "open"
    /\ AppliesOfSession < MaxApplies
    /\ IF HasSizes(browserConfig)
       THEN /\ applied' = Append(applied, Applied(browserConfig, FALSE))
            /\ UNCHANGED <<gpc, browserConfig, configFile>>
       ELSE IF FreshSizes(mobile) = {}
            THEN /\ gpc' = "raised"
                 /\ UNCHANGED <<browserConfig, configFile, applied>>
            ELSE \E sizes \in FreshSizes(mobile) :
                   /\ browserConfig' = sizes
                   /\ configFile' = sizes
                   /\ applied' = Append(applied, Applied(sizes, TRUE))
                   /\ UNCHANGED gpc
    /\ UNCHANGED <<session, mobile>>

(* The Browser is closed and the account gets another one, of either       *)
(* device class, on the same profile directory (setupProfiles).            *)
GeoNextBrowser ==
    /\ GeoFrame
    /\ gpc = "open"
    /\ AppliesOfSession >= 1
    /\ session < MaxSessions
    /\ session' = session + 1
    /\ mobile' \in BOOLEAN
    /\ browserConfig' = None
    /\ gpc' = "load"
    /\ UNCHANGED <<configFile, applied>>

GeoNext ==
    \/ GeoLoad
    \/ GeoApply
    \/ GeoNextBrowser

-----------------------------------------------------------------------------
(* Browser.getLanguageCountry(language, country).  "None" is None; None    *)
(* and the empty string are the values "not x" holds for.                  *)

Unset(x) == x \in {"None", ""}

LanguageArgs == {"None", "", "fr"}

CountryArgs == {"None", "", "FR"}

(* CONFIG.get("default").get("geolocation") and .get("language"): the      *)
(* built-in config has "US" and no language; a config.yaml replaces the    *)
(* whole "default" mapping.                                                *)
ConfigGeolocations == {"None", "US", "DE"}

ConfigLanguages == {"None", "de"}

(* What the locale block finds for a field: a value, nothing because       *)
(* pycountry raised ValueError (suppressed), or an exception that is not   *)
(* suppressed (currentLocale[0] is None, or has no "_", or pycountry       *)
(* knows no such code).                                                    *)
LocaleOutcomes == {"value", "ValueError", "error"}

(* ipapi.location(): a location, RateLimited, another exception.           *)
IpapiOutcomes == {"location", "RateLimited", "error"}

LcRaised == [kind |-> "raise", language |-> "None", country |-> "None"]

(* The locals after the first two if statements: the second one, taken     *)
(* when language is unset, assigns the configured language to country.     *)
AfterDefaults(in) ==
    [language |-> in.language,
     country |-> IF Unset(in.language) THEN in.configLanguage
                 ELSE IF Unset(in.country) THEN in.configGeolocation
                 ELSE in.country]

(* The locale block.                                                       *)
AfterLocale(in, l) ==
    IF ~(Unset(l.language) \/ Unset(l.country)) THEN [l EXCEPT !.kind = "ok"]
    ELSE IF \/ Unset(l.language) /\ in.localeLanguage = "error"
            \/ Unset(l.country) /\ in.localeCountry = "error"
         THEN [l EXCEPT !.kind = "raise"]
    ELSE [kind |-> "ok",
          language |-> IF Unset(l.language) /\ in.localeLanguage = "value"
                       THEN "pt" ELSE l.language,
          country |-> IF Unset(l.country) /\ in.localeCountry = "value"
                      THEN "BR" ELSE l.country]

(* The ipapi block.  The handler of RateLimited is                         *)
(* "logging.warning(exc_info=True)": logging.warning(msg, *args, **kwargs) *)
(* has no msg here, so the call raises TypeError and the exception leaves  *)
(* the function, as every exception other than RateLimited does.           *)
AfterIpapi(in, l) ==
    IF ~(Unset(l.language) \/ Unset(l.country)) THEN l
    ELSE IF in.ipapi \in {"error", "RateLimited"}
         THEN [l EXCEPT !.kind = "raise"]
    ELSE [l EXCEPT !.language = IF Unset(l.language) THEN "ja" ELSE @,
                   !.country = IF Unset(l.country) THEN "JP" ELSE @]

getLanguageCountry(in) ==
    LET d == AfterDefaults(in)
        l == AfterLocale(in, [kind |-> "ok", language |-> d.language,
                              country |-> d.country])
        i == AfterIpapi(in, l)
    IN  IF l.kind = "raise" \/ i.kind = "raise" THEN LcRaised
        ELSE [kind |-> "tuple",
              language |-> IF Unset(i.language) THEN "en" ELSE i.language,
              country |-> IF Unset(i.country) THEN "US" ELSE i.country]

LcStart ==
    /\ \E la \in LanguageArgs, co \in CountryArgs,
          cg \in ConfigGeolocations, cl \in ConfigLanguages,
          ll \in LocaleOutcomes, lc \in LocaleOutcomes,
          ip \in IpapiOutcomes :
         lcIn = [language |-> la, country |-> co, configGeolocation |-> cg,
                 configLanguage |-> cl, localeLanguage |-> ll,
                 localeCountry |-> lc, ipapi |-> ip]
    /\ lcOut = [kind |-> "pending", language |-> "None", country |-> "None"]

LcIdle ==
    /\ lcIn = [language |-> "None", country |-> "None",
               configGeolocation |-> "US", configLanguage |-> "None",
               localeLanguage |-> "value", localeCountry |-> "value",
               ipapi |-> "location"]
    /\ lcOut = [kind |-> "idle", language |-> "None", country |-> "None"]

LcCall ==
    /\ lcOut.kind = "pending"
    /\ lcOut' = getLanguageCountry(lcIn)
    /\ UNCHANGED <<lcIn, dashVars, sessVars, actVars, rsVars, codeVars,
                   geoVars, moreVars>>

LcNext == LcCall

-----------------------------------------------------------------------------
(* Activities._process_activity_with_heartbeat: the main flow of each call *)
(* and the daemon threads the calls start.  A webdriver command is a       *)
(* request to the driver and its response: a thread is inside the command  *)
(* from the one to the other.                                              *)

(* Calls of _process_activity_with_heartbeat in one session.               *)
MaxActivities == 2

(* execute_script calls of one iteration of activity_heartbeat.            *)
NumHeartbeatScripts == 4

(* The webdriver-using stages of the main flow, in order: the modal        *)
(* check, the search bar, the completion function, the closing simulation. *)
MainStages == <<"modal", "searchbar", "protocol", "simulate">>

StageAfter(stage) ==
    CASE stage = "modal" -> "searchbar"
      [] stage = "searchbar" -> "protocol"
      [] stage = "protocol" -> "simulate"
      [] OTHER -> "return"

HbStart ==
    /\ hpc = "start"
    /\ hbusy = FALSE
    /\ hacts = 0
    /\ hthreads = <<>>

HbIdle ==
    /\ hpc = "idle"
    /\ hbusy = FALSE
    /\ hacts = 0
    /\ hthreads = <<>>

HbFrame ==
    UNCHANGED <<baseVars, botVars, loadVars, quizVars, abcVars, totVars,
                clickVars>>

(* heartbeat_thread = threading.Thread(target=activity_heartbeat,          *)
(* daemon=True); heartbeat_thread.start().  The new thread is at the top   *)
(* of its first iteration.                                                 *)
HeartbeatThreadStart ==
    /\ HbFrame
    /\ hpc = "start"
    /\ hthreads' = Append(hthreads, [at |-> 1, busy |-> FALSE])
    /\ hpc' = "modal"
    /\ UNCHANGED <<hbusy, hacts>>

(* The main flow sends a webdriver command of its current stage.           *)
MainCallBegin ==
    /\ HbFrame
    /\ hpc \in {MainStages[i] : i \in 1..Len(MainStages)}
    /\ ~hbusy
    /\ hbusy' = TRUE
    /\ UNCHANGED <<hpc, hacts, hthreads>>

(* The command of the main flow ends.  A displayed modal button is clicked *)
(* and the function returns; any other stage is followed by the next one.  *)
MainCallEnd ==
    /\ HbFrame
    /\ hbusy
    /\ hbusy' = FALSE
    /\ \E modalClicked \in BOOLEAN :
         hpc' = IF hpc = "modal" /\ modalClicked
                THEN "return"
                ELSE StageAfter(hpc)
    /\ UNCHANGED <<hacts, hthreads>>

(* _process_activity_with_heartbeat returns (or raises) to doActivity.     *)
(* Nothing stops or joins the thread it started.                           *)
MainReturn ==
    /\ HbFrame
    /\ hpc = "return"
    /\ hpc' = "between"
    /\ hacts' = hacts + 1
    /\ UNCHANGED <<hbusy, hthreads>>

(* completeActivities goes on to the next activity of the session.         *)
NextActivity ==
    /\ HbFrame
    /\ hpc = "between"
    /\ hacts < MaxActivities
    /\ hpc' = "start"
    /\ UNCHANGED <<hbusy, hacts, hthreads>>

(* activity_heartbeat: "while True:" after time.sleep(1).  The loop has no *)
(* exit.                                                                   *)
HeartbeatWake ==
    /\ HbFrame
    /\ \E t \in 1..Len(hthreads) :
         /\ hthreads[t].at = 0
         /\ hthreads' = [hthreads EXCEPT ![t].at = 1]
    /\ UNCHANGED <<hpc, hbusy, hacts>>

(* activity_heartbeat: self.webdriver.execute_script(...) is sent.         *)
HeartbeatCallBegin ==
    /\ HbFrame
    /\ \E t \in 1..Len(hthreads) :
         /\ hthreads[t].at > 0
         /\ ~hthreads[t].busy
         /\ hthreads' = [hthreads EXCEPT ![t].busy = TRUE]
    /\ UNCHANGED <<hpc, hbusy, hacts>>

(* The position of a heartbeat thread after its command number at ended:   *)
(* the next command, or, after the last one or an exception, the sleep at  *)
(* the end of the iteration.                                               *)
HeartbeatAfter(at, r) ==
    IF r = "ok" /\ at < NumHeartbeatScripts THEN at + 1 ELSE 0

(* activity_heartbeat: the execute_script call returns or raises.          *)
HeartbeatCallEnd ==
    /\ HbFrame
    /\ \E t \in 1..Len(hthreads), r \in CallOutcomes :
         /\ hthreads[t].busy
         /\ hthreads' = [hthreads EXCEPT
                           ![t] = [at |-> HeartbeatAfter(hthreads[t].at, r),
                                   busy |-> FALSE]]
    /\ UNCHANGED <<hpc, hbusy, hacts>>

HbNext ==
    \/ HeartbeatThreadStart
    \/ MainCallBegin
    \/ MainCallEnd
    \/ MainReturn
    \/ NextActivity
    \/ HeartbeatWake
    \/ HeartbeatCallBegin
    \/ HeartbeatCallEnd

-----------------------------------------------------------------------------
(* executeBot: the desktop session and then the mobile session of one      *)
(* account.  Each is one Browser object: its steps are those of the        *)
(* session lifecycle above.  setupProfiles names the profile directory     *)
(* after the username alone, so both sessions run on the same directory.   *)

SearchTypes == {"desktop", "mobile", "None"}

BotStart ==
    /\ searchtype \in SearchTypes
    /\ botpc = IF searchtype = "mobile" THEN "mobile" ELSE "desktop"
    /\ desktopProcess = "none"

BotIdle ==
    /\ botpc = "idle"
    /\ searchtype = "None"
    /\ desktopProcess = "none"

BotFrame == UNCHANGED <<dashVars, actVars, rsVars, codeVars, geoVars, lcVars,
                        hbVars, loadVars, quizVars, abcVars, totVars,
                        clickVars>>

(* The desktop with block has been left without an exception and           *)
(* args.searchtype in ("mobile", None): Browser(mobile=True, ...) is       *)
(* constructed, a new object with its own webdriver.                       *)
ExecuteBotMobile ==
    /\ BotFrame
    /\ botpc = "desktop"
    /\ bpc = "exited"
    /\ exitPath = "normal"
    /\ searchtype = "None"
    /\ botpc' = "mobile"
    /\ desktopProcess' = process
    /\ bpc' = "init"
    /\ webdriver' = "None"
    /\ utils' = "None"
    /\ process' = "none"
    /\ closeCalls' = 0
    /\ quitCalls' = 0
    /\ discover' = FALSE
    /\ listeners' = 0
    /\ initialApplied' = 0
    /\ targets' = <<>>
    /\ failedStep' = "none"
    /\ exitPath' = "none"
    /\ UNCHANGED searchtype

(* The last with block of the call has been left without an exception.     *)
ExecuteBotReturn ==
    /\ BotFrame
    /\ botpc \in {"desktop", "mobile"}
    /\ bpc = "exited"
    /\ exitPath = "normal"
    /\ botpc = "desktop" => searchtype = "desktop"
    /\ botpc' = "returned"
    /\ UNCHANGED <<searchtype, desktopProcess, sessVars>>

(* A constructor or the body of a with block raised: the exception leaves  *)
(* executeBot.                                                             *)
ExecuteBotRaise ==
    /\ BotFrame
    /\ botpc \in {"desktop", "mobile"}
    /\ \/ bpc = "ctor_raised"
       \/ bpc = "exited" /\ exitPath = "exception"
    /\ botpc' = "raised"
    /\ UNCHANGED <<searchtype, desktopProcess, sessVars>>

BotNext ==
    \/ BrowserSetup
    \/ SetDiscoverTargets
    \/ AddCdpListener
    \/ ApplyInitialTab
    \/ BuildUtils
    \/ TargetCreated
    \/ BrowserExit
    \/ ExecuteBotMobile
    \/ ExecuteBotReturn
    \/ ExecuteBotRaise

-----------------------------------------------------------------------------
(* Activities.waitUntilQuizLoads, one action per branch of its loop.       *)

(* "if tries < 10:"                                                        *)
MayPollAgainBelowNine(t) == t < 9

MayPollAgain(t) == t < 10

(* "if refreshCount < 5:"                                                  *)
MayRefreshBelowSix(c) == c < 6

MayRefresh(c) == c < 5

LoadStart ==
    /\ wpc = "check"
    /\ qtries = 0
    /\ refreshCount = 0
    /\ lastFound = FALSE
    /\ checks = 0
    /\ reloadChecks = <<>>
    /\ wresult = "running"

LoadIdle ==
    /\ wpc = "idle"
    /\ qtries = 0
    /\ refreshCount = 0
    /\ lastFound = FALSE
    /\ checks = 0
    /\ reloadChecks = <<>>
    /\ wresult = "idle"

LoadFrame ==
    UNCHANGED <<baseVars, hbVars, botVars, quizVars, abcVars, totVars,
                clickVars>>

(* try: self.webdriver.find_element(By.XPATH,                              *)
(* '//*[@id="currentQuestionContainer"]'); return True.  The bare except   *)
(* takes every exception of the lookup.                                    *)
QuizLoadsCheck ==
    /\ LoadFrame
    /\ wpc = "check"
    /\ checks' = checks + 1
    /\ \E found \in BOOLEAN :
         /\ lastFound' = found
         /\ IF found
            THEN wpc' = "done" /\ wresult' = "True"
            ELSE wpc' = "except" /\ wresult' = wresult
    /\ UNCHANGED <<qtries, refreshCount, reloadChecks>>

(* except: if tries < 10: tries += 1; sleep(0.5)                           *)
QuizLoadsPoll ==
    /\ LoadFrame
    /\ wpc = "except"
    /\ MayPollAgain(qtries)
    /\ qtries' = qtries + 1
    /\ wpc' = "check"
    /\ UNCHANGED <<refreshCount, lastFound, checks, reloadChecks, wresult>>

(* else: if refreshCount < 5: self.webdriver.refresh(); refreshCount += 1; *)
(* tries = 0; sleep(5).  The call is inside the except clause: an          *)
(* exception of refresh leaves waitUntilQuizLoads.                         *)
QuizLoadsRefresh ==
    /\ LoadFrame
    /\ wpc = "except"
    /\ ~MayPollAgain(qtries)
    /\ MayRefresh(refreshCount)
    /\ reloadChecks' = Append(reloadChecks, checks)
    /\ \E r \in CallOutcomes :
         IF r = "ok"
         THEN /\ refreshCount' = refreshCount + 1
              /\ qtries' = 0
              /\ checks' = 0
              /\ wpc' = "check"
              /\ wresult' = wresult
         ELSE /\ wpc' = "done"
              /\ wresult' = "raised"
              /\ UNCHANGED <<refreshCount, qtries, checks>>
    /\ UNCHANGED lastFound

(* else: return False                                                      *)
QuizLoadsGiveUp ==
    /\ LoadFrame
    /\ wpc = "except"
    /\ ~MayPollAgain(qtries)
    /\ ~MayRefresh(refreshCount)
    /\ wpc' = "done"
    /\ wresult' = "False"
    /\ UNCHANGED <<qtries, refreshCount, lastFound, checks, reloadChecks>>

LoadNext ==
    \/ QuizLoadsCheck
    \/ QuizLoadsPoll
    \/ QuizLoadsRefresh
    \/ QuizLoadsGiveUp

-----------------------------------------------------------------------------
(* Activities.completeQuiz.  A question is what the page shows during one  *)
(* round: for each option rqAnswerOption0.. its attribute (iscorrectoption *)
(* in the 8-option quiz, data-option otherwise; "None" when the attribute  *)
(* is absent) and _w.rewardsQuizRenderInfo.correctAnswer.                  *)

(* Largest maxQuestions the page declares.                                 *)
MaxQuestions == 2

OptionCounts == {2, 3, 4, 5, 8}

FlagValues == {"True", "False", "None"}

OptionValues == {"a", "b", "None"}

(* str.lower() on the attribute values.                                    *)
lower(v) ==
    CASE v = "True" -> "true"
      [] v = "False" -> "false"
      [] OTHER -> v

NoQuestion == [options |-> <<>>, correctAnswer |-> "None"]

(* Most options of one 8-option question that lack the attribute.          *)
MaxAbsent == 1

Questions(n) ==
    IF n = 8
    THEN {[options |-> o, correctAnswer |-> "None"] :
             o \in {f \in [1..n -> FlagValues] :
                       Cardinality({i \in 1..n : f[i] = "None"})
                           <= MaxAbsent}}
    ELSE {[options |-> o, correctAnswer |-> c] :
             o \in [1..n -> OptionValues], c \in OptionValues}

(* "if isCorrectOption and isCorrectOption.lower() == 'true'" without the  *)
(* lower().                                                                *)
IsCorrectOptionCaseSensitive(v) == v # "None" /\ v = "true"

(* "if isCorrectOption and isCorrectOption.lower() == 'true'"              *)
IsCorrectOption(v) == v # "None" /\ lower(v) = "true"

(* numberOfOptions == 8: "for i in range(numberOfOptions): ...             *)
(* answers.append(f'rqAnswerOption{i}')", from option i on.  Options are   *)
(* numbered from 0 as in their element ids.                                *)
RECURSIVE CorrectOptionsFrom(_, _)
CorrectOptionsFrom(q, i) ==
    IF i >= Len(q.options)
    THEN <<>>
    ELSE (IF IsCorrectOption(q.options[i + 1]) THEN <<i>> ELSE <<>>)
             \o CorrectOptionsFrom(q, i + 1)

(* The loop of the 2, 3 and 4 option quiz without its break.               *)
RECURSIVE EveryMatchFrom(_, _)
EveryMatchFrom(q, i) ==
    IF i >= Len(q.options)
    THEN <<>>
    ELSE (IF q.options[i + 1] = q.correctAnswer THEN <<i>> ELSE <<>>)
             \o EveryMatchFrom(q, i + 1)

(* numberOfOptions in [2, 3, 4]: "for i in range(numberOfOptions): if      *)
(* ...get_attribute('data-option') == correctOption: ... break", from      *)
(* option i on.                                                            *)
RECURSIVE FirstMatchFrom(_, _)
FirstMatchFrom(q, i) ==
    IF i >= Len(q.options)
    THEN <<>>
    ELSE IF q.options[i + 1] = q.correctAnswer
         THEN <<i>>
         ELSE FirstMatchFrom(q, i + 1)

(* The options one round clicks, in the order of the clicks.               *)
OptionsToClick(n, q) ==
    IF n = 8
    THEN CorrectOptionsFrom(q, 0)
    ELSE IF n \in {2, 3, 4}
         THEN FirstMatchFrom(q, 0)
         ELSE <<>>

QuizStart ==
    /\ qpc = "start"
    /\ numberOfOptions = 0
    /\ currentQuestionNumber = 0
    /\ maxQuestions = 0
    /\ rounds = 0
    /\ qpage = NoQuestion
    /\ answers = <<>>
    /\ qlog = <<>>
    /\ qresult = "running"

QuizIdle ==
    /\ qpc = "idle"
    /\ numberOfOptions = 0
    /\ currentQuestionNumber = 0
    /\ maxQuestions = 0
    /\ rounds = 0
    /\ qpage = NoQuestion
    /\ answers = <<>>
    /\ qlog = <<>>
    /\ qresult = "idle"

QuizFrame ==
    UNCHANGED <<baseVars, hbVars, botVars, loadVars, abcVars, totVars,
                clickVars>>

(* sleep(12); "if not self.waitUntilQuizLoads(): resetTabs(); return";     *)
(* the suppressed click on the start button; waitUntilVisible(..., 180);   *)
(* the three execute_script reads.  loaded is what waitUntilQuizLoads      *)
(* gives, rest whether one of the later calls raised.                      *)
QuizBegin ==
    /\ QuizFrame
    /\ qpc = "start"
    /\ \E loaded \in {"True", "False", "raised"}, rest \in CallOutcomes,
          n \in OptionCounts, cur \in 1..MaxQuestions, max \in 1..MaxQuestions :
         IF loaded = "True" /\ rest = "ok"
         THEN /\ numberOfOptions' = n
              /\ currentQuestionNumber' = cur
              /\ maxQuestions' = max
              /\ qpc' = "round"
              /\ qresult' = qresult
         ELSE /\ qpc' = "done"
              /\ qresult' = IF loaded = "False" THEN "not_loaded" ELSE "raised"
              /\ UNCHANGED <<numberOfOptions, currentQuestionNumber,
                             maxQuestions>>
    /\ UNCHANGED <<rounds, qpage, answers, qlog>>

(* "for _ in range(currentQuestionNumber, maxQuestions + 1):" has another  *)
(* value: the round reads the options of the question the page shows, and  *)
(* in the 2, 3 and 4 option quiz the correct answer.  A lookup that raises *)
(* leaves completeQuiz.                                                    *)
QuizReadRound ==
    /\ QuizFrame
    /\ qpc = "round"
    /\ currentQuestionNumber + rounds < maxQuestions + 1
    /\ rounds' = rounds + 1
    /\ qlog' = <<>>
    /\ \E q \in Questions(numberOfOptions), r \in CallOutcomes :
         IF r = "ok"
         THEN /\ qpage' = q
              /\ answers' = OptionsToClick(numberOfOptions, q)
              /\ qpc' = "click"
              /\ qresult' = qresult
         ELSE /\ qpage' = qpage
              /\ answers' = <<>>
              /\ qpc' = "done"
              /\ qresult' = "raised"
    /\ UNCHANGED <<numberOfOptions, currentQuestionNumber, maxQuestions>>

(* element = find_element(By.ID, answer); self.browser.utils.click(element) *)
QuizClick ==
    /\ QuizFrame
    /\ qpc = "click"
    /\ answers # <<>>
    /\ \E r \in CallOutcomes :
         IF r = "ok"
         THEN /\ qlog' = Append(qlog, [kind |-> "click",
                                       option |-> Head(answers)])
              /\ qpc' = "refresh"
              /\ qresult' = qresult
         ELSE /\ qpc' = "done"
              /\ qresult' = "raised"
              /\ qlog' = qlog
    /\ UNCHANGED <<numberOfOptions, currentQuestionNumber, maxQuestions,
                   rounds, qpage, answers>>

(* self.browser.utils.waitUntilQuestionRefresh(): the wait returns, or its *)
(* TimeoutException leaves completeQuiz.                                   *)
QuizWaitRefresh ==
    /\ QuizFrame
    /\ qpc = "refresh"
    /\ \E r \in CallOutcomes :
         IF r = "ok"
         THEN /\ qlog' = Append(qlog, [kind |-> "refresh",
                                       option |-> Head(answers)])
              /\ answers' = Tail(answers)
              /\ qpc' = "click"
              /\ qresult' = qresult
         ELSE /\ qpc' = "done"
              /\ qresult' = "raised"
              /\ UNCHANGED <<qlog, answers>>
    /\ UNCHANGED <<numberOfOptions, currentQuestionNumber, maxQuestions,
                   rounds, qpage>>

(* The body of the for loop is over: the page goes on to its next         *)
(* question, or to the end of the quiz.                                    *)
QuizRoundEnd ==
    /\ QuizFrame
    /\ qpc = "click"
    /\ answers = <<>>
    /\ qpc' = "round"
    /\ qpage' = NoQuestion
    /\ qlog' = <<>>
    /\ UNCHANGED <<numberOfOptions, currentQuestionNumber, maxQuestions,
                   rounds, answers, qresult>>

(* The range is exhausted: completeQuiz returns.                           *)
QuizReturn ==
    /\ QuizFrame
    /\ qpc = "round"
    /\ ~(currentQuestionNumber + rounds < maxQuestions + 1)
    /\ qpc' = "done"
    /\ qresult' = "returned"
    /\ UNCHANGED <<numberOfOptions, currentQuestionNumber, maxQuestions,
                   rounds, qpage, answers, qlog>>

QuizNext ==
    \/ QuizBegin
    \/ QuizReadRound
    \/ QuizClick
    \/ QuizWaitRefresh
    \/ QuizRoundEnd
    \/ QuizReturn

-----------------------------------------------------------------------------
(* Activities.completeABC.  The header text is a sequence of characters.   *)

(* Largest number a header names.                                          *)
MaxCount == 3

(* Most words of a header between its parentheses.                         *)
MaxWords == 3

(* text[:-1][1:]                                                           *)
StripEnds(text) ==
    LET front == SubSeq(text, 1, Len(text) - 1)
    IN  SubSeq(front, 2, Len(front))

(* str.split(): the maximal runs of characters other than white space;    *)
(* word is the run still open when text remains to be read.                *)
RECURSIVE SplitFrom(_, _)
SplitFrom(text, word) ==
    IF text = <<>>
    THEN IF word = <<>> THEN <<>> ELSE <<word>>
    ELSE IF Head(text) = " "
         THEN (IF word = <<>> THEN <<>> ELSE <<word>>)
                  \o SplitFrom(Tail(text), <<>>)
         ELSE SplitFrom(Tail(text), Append(word, Head(text)))

split(text) == SplitFrom(text, <<>>)

(* str.isdigit()                                                           *)
isdigit(word) ==
    /\ word # <<>>
    /\ \A i \in 1..Len(word) : \E d \in 1..10 : DecimalDigits[d] = word[i]

(* int(word) of a word of decimal digits.                                  *)
RECURSIVE int(_)
int(word) ==
    IF word = <<>> THEN 0
    ELSE 10 * int(SubSeq(word, 1, Len(word) - 1))
         + (CHOOSE d \in 0..9 : DecimalDigits[d + 1] = word[Len(word)])

(* The generator "int(s) for s in counter.split() if s.isdigit()".         *)
CounterNumbers(counter) ==
    LET words == split(counter)
    IN  {int(words[i]) : i \in {j \in 1..Len(words) : isdigit(words[j])}}

Maximum(S) == CHOOSE x \in S : \A y \in S : y <= x

(* The first number of the header instead of the largest.                  *)
FirstNumberOfQuestions(text) ==
    LET words == split(StripEnds(text))
        digits == SelectSeq(words, isdigit)
    IN  IF digits = <<>> THEN -1 ELSE int(digits[1])

(* counter = ....text[:-1][1:]; numberOfQuestions = max(int(s) for s in    *)
(* counter.split() if s.isdigit()): -1 stands for the ValueError that max  *)
(* raises on an empty sequence.                                            *)
NumberOfQuestions(text) ==
    LET numbers == CounterNumbers(StripEnds(text))
    IN  IF numbers = {} THEN -1 ELSE Maximum(numbers)

(* The words a header is made of: the numbers and a word that is none.     *)
HeaderWords == {str(k) : k \in 1..MaxCount} \cup {<<"o", "f">>}

RECURSIVE Join(_)
Join(words) ==
    IF Len(words) = 1 THEN words[1]
    ELSE words[1] \o <<" ">> \o Join(Tail(words))

(* The headers the page may show, "(1 of 3)" among them.                   *)
Headers ==
    {<<"(">> \o Join(ws) \o <<")">> : ws \in SeqsFromTo(HeaderWords, 1, MaxWords)}

AbcStart ==
    /\ abpc = "start"
    /\ header \in Headers
    /\ numberOfQuestions = 0
    /\ question = 0
    /\ ablog = <<>>
    /\ abresult = "running"

AbcIdle ==
    /\ abpc = "idle"
    /\ header = <<"(", "1", ")">>
    /\ numberOfQuestions = 0
    /\ question = 0
    /\ ablog = <<>>
    /\ abresult = "idle"

AbcFrame ==
    UNCHANGED <<baseVars, hbVars, botVars, loadVars, quizVars, totVars,
                clickVars>>

(* The header is looked up and parsed; the lookup or the parse may raise.  *)
AbcBegin ==
    /\ AbcFrame
    /\ abpc = "start"
    /\ \E r \in CallOutcomes :
         IF r = "ok" /\ NumberOfQuestions(header) >= 0
         THEN /\ numberOfQuestions' = NumberOfQuestions(header)
              /\ abpc' = "option"
              /\ abresult' = abresult
         ELSE /\ numberOfQuestions' = numberOfQuestions
              /\ abpc' = "done"
              /\ abresult' = "raised"
    /\ UNCHANGED <<header, question, ablog>>

(* "for question in range(numberOfQuestions):" has another value:          *)
(* element = find_element(By.ID,                                           *)
(* f"questionOptionChoice{question}{randint(0, 2)}"); click(element);      *)
(* sleep(randint(10, 15))                                                  *)
AbcClickOption ==
    /\ AbcFrame
    /\ abpc = "option"
    /\ question < numberOfQuestions
    /\ \E choice \in randint(0, 2), r \in CallOutcomes :
         IF r = "ok"
         THEN /\ ablog' = Append(ablog, [kind |-> "option",
                                         question |-> question,
                                         choice |-> choice])
              /\ abpc' = "next"
              /\ abresult' = abresult
         ELSE /\ ablog' = ablog
              /\ abpc' = "done"
              /\ abresult' = "raised"
    /\ UNCHANGED <<header, numberOfQuestions, question>>

(* element = find_element(By.ID, f"nextQuestionbtn{question}");            *)
(* click(element); sleep(randint(10, 15)); the loop goes on.               *)
AbcClickNext ==
    /\ AbcFrame
    /\ abpc = "next"
    /\ \E r \in CallOutcomes :
         IF r = "ok"
         THEN /\ ablog' = Append(ablog, [kind |-> "next",
                                         question |-> question,
                                         choice |-> -1])
              /\ question' = question + 1
              /\ abpc' = "option"
              /\ abresult' = abresult
         ELSE /\ ablog' = ablog
              /\ question' = question
              /\ abpc' = "done"
              /\ abresult' = "raised"
    /\ UNCHANGED <<header, numberOfQuestions>>

(* The range is exhausted: completeABC returns.                            *)
AbcReturn ==
    /\ AbcFrame
    /\ abpc = "option"
    /\ ~(question < numberOfQuestions)
    /\ abpc' = "done"
    /\ abresult' = "returned"
    /\ UNCHANGED <<header, numberOfQuestions, question, ablog>>

AbcNext ==
    \/ AbcBegin
    \/ AbcClickOption
    \/ AbcClickNext
    \/ AbcReturn

-----------------------------------------------------------------------------
(* Activities.completeThisOrThat and getAnswerAndCode.  In every round the *)
(* page shows the key _G.IG, the data-option texts of rqAnswerOption0 and  *)
(* rqAnswerOption1, and _w.rewardsQuizRenderInfo.correctAnswer.            *)

(* "for _ in range(10):"                                                   *)
NumRounds == 10

TotKeys == {<<"a", "F">>, <<"0", "9">>, <<"G", "G">>}

TotTexts == {<<"P", "a", "r", "i", "s">>, <<"R", "o", "m", "e">>,
             <<"a", "B">>, <<"B", "a">>}

(* What the page may declare as the correct answer: the code of one of the *)
(* texts under one of the keys, or a value that is the code of none.       *)
TotCorrectAnswers ==
    {getAnswerCode(k, t).value : k \in {<<"a", "F">>, <<"0", "9">>},
                                 t \in TotTexts}
        \cup {<<"0">>}

NoTotPage == [key |-> <<"0", "0">>, texts |-> <<>>, correctAnswer |-> <<>>]

TotPages ==
    {[key |-> k, texts |-> <<t0, t1>>, correctAnswer |-> c] :
        k \in TotKeys, t0 \in TotTexts, t1 \in TotTexts,
        c \in TotCorrectAnswers}

Unbound == [round |-> 0, option |-> -1]

(* getAnswerAndCode(f"rqAnswerOption{option}"): the code of the option's   *)
(* data-option under the page's key.                                       *)
getAnswerAndCode(page, option) ==
    getAnswerCode(page.key, page.texts[option + 1])

(* "if answer1Code == correctAnswerCode: answerToClick = answer1           *)
(* elif answer2Code == correctAnswerCode: answerToClick = answer2": with   *)
(* neither equal the local keeps what it had before the round.             *)
AnswerToClickAfter(page, round, before) ==
    IF getAnswerAndCode(page, 0).value = page.correctAnswer
    THEN [round |-> round, option |-> 0]
    ELSE IF getAnswerAndCode(page, 1).value = page.correctAnswer
         THEN [round |-> round, option |-> 1]
         ELSE before

TotStart ==
    /\ tpc = "start"
    /\ tround = 0
    /\ tpage = NoTotPage
    /\ answerToClick = Unbound
    /\ tclick = -1
    /\ tresult = "running"

TotIdle ==
    /\ tpc = "idle"
    /\ tround = 0
    /\ tpage = NoTotPage
    /\ answerToClick = Unbound
    /\ tclick = -1
    /\ tresult = "idle"

TotFrame ==
    UNCHANGED <<baseVars, hbVars, botVars, loadVars, quizVars, abcVars,
                clickVars>>

(* sleep(12); "if not self.waitUntilQuizLoads(): resetTabs(); return";     *)
(* the suppressed click on the start button; waitUntilVisible(..., 180).   *)
TotBegin ==
    /\ TotFrame
    /\ tpc = "start"
    /\ \E loaded \in {"True", "False", "raised"}, rest \in CallOutcomes :
         IF loaded = "True" /\ rest = "ok"
         THEN tpc' = "round" /\ tresult' = tresult
         ELSE /\ tpc' = "done"
              /\ tresult' = IF loaded = "False" THEN "not_loaded" ELSE "raised"
    /\ UNCHANGED <<tround, tpage, answerToClick, tclick>>

(* One round up to the click: the correct answer, the key and the two      *)
(* options are read and the codes compared.  A lookup that raises, or the  *)
(* ValueError of getAnswerCode, leaves completeThisOrThat.                 *)
TotReadRound ==
    /\ TotFrame
    /\ tpc = "round"
    /\ tround < NumRounds
    /\ tround' = tround + 1
    /\ tclick' = -1
    /\ \E page \in TotPages, r \in CallOutcomes :
         IF /\ r = "ok"
            /\ getAnswerAndCode(page, 0).kind = "str"
         THEN /\ tpage' = page
              /\ answerToClick' =
                     AnswerToClickAfter(page, tround + 1, answerToClick)
              /\ tpc' = "click"
              /\ tresult' = tresult
         ELSE /\ tpage' = tpage
              /\ answerToClick' = answerToClick
              /\ tpc' = "done"
              /\ tresult' = "raised"

(* self.browser.utils.click(answerToClick): UnboundLocalError while the    *)
(* local has never been bound.  An element found in an earlier round is    *)
(* clicked where the page kept it, and raises                              *)
(* StaleElementReferenceException where the page replaced it.              *)
TotClick ==
    /\ TotFrame
    /\ tpc = "click"
    /\ \E r \in CallOutcomes :
         IF answerToClick # Unbound /\ r = "ok"
         THEN /\ tclick' = answerToClick.option
              /\ tpc' = "sleep"
              /\ tresult' = tresult
         ELSE /\ tclick' = tclick
              /\ tpc' = "done"
              /\ tresult' = "raised"
    /\ UNCHANGED <<tround, tpage, answerToClick>>

(* sleep(randint(10, 15)): the page goes on to its next pair.              *)
TotSleep ==
    /\ TotFrame
    /\ tpc = "sleep"
    /\ tpc' = "round"
    /\ tpage' = NoTotPage
    /\ tclick' = -1
    /\ UNCHANGED <<tround, answerToClick, tresult>>

(* The range is exhausted: completeThisOrThat returns.                     *)
TotReturn ==
    /\ TotFrame
    /\ tpc = "round"
    /\ ~(tround < NumRounds)
    /\ tpc' = "done"
    /\ tresult' = "returned"
    /\ UNCHANGED <<tround, tpage, answerToClick, tclick>>

TotNext ==
    \/ TotBegin
    \/ TotReadRound
    \/ TotClick
    \/ TotSleep
    \/ TotReturn

-----------------------------------------------------------------------------
(* Utils.click(element) and the tryDismissAllMessages call of its handler. *)

(* len(byValues): the overlays tryDismissAllMessages knows, before the     *)
(* cookie banner.                                                          *)
NumByValues == 8

(* WebDriverWait(self.webdriver, 10).until(element_to_be_clickable(...)):  *)
(* the element is clickable in time, or the wait raises.                   *)
WaitOutcomes == {"clickable", "TimeoutException",
                 "StaleElementReferenceException"}

(* element.click()                                                         *)
ClickOutcomes == {"ok", "ElementClickInterceptedException",
                  "ElementNotInteractableException",
                  "StaleElementReferenceException"}

(* One entry of byValues, or the cookie banner: nothing to click (no such  *)
(* element, or none displayed), a button clicked, or an exception of       *)
(* find_elements, is_displayed or click, which nothing suppresses.         *)
DismissOutcomes == {"nothing", "clicked", "ElementClickInterceptedException"}

Obstructed == {"ElementClickInterceptedException",
               "ElementNotInteractableException"}

(* An except clause that also covers the statements of the handler.        *)
CaughtOnRetry(at, exc) == at <= 2 /\ exc \in Obstructed

(* "except (ElementClickInterceptedException,                              *)
(* ElementNotInteractableException):" covers the try block only.           *)
Caught(at, exc) == at = 1 /\ exc \in Obstructed

ClickStart ==
    /\ kpc = "wait"
    /\ attempt = 1
    /\ clickLog = <<>>
    /\ dismissCalls = 0
    /\ byIndex = 0
    /\ dismissedBy = {}
    /\ clickResult = "none"

ClickIdle ==
    /\ kpc = "idle"
    /\ attempt = 1
    /\ clickLog = <<>>
    /\ dismissCalls = 0
    /\ byIndex = 0
    /\ dismissedBy = {}
    /\ clickResult = "none"

ClickFrame ==
    UNCHANGED <<baseVars, hbVars, botVars, loadVars, quizVars, abcVars,
                totVars>>

(* An exception exc is raised at the current statement of click: the       *)
(* except clause takes it and calls tryDismissAllMessages, or it leaves    *)
(* click.                                                                  *)
ClickRaise(exc) ==
    IF Caught(attempt, exc)
    THEN /\ attempt' = attempt + 1
         /\ dismissCalls' = dismissCalls + 1
         /\ byIndex' = 1
         /\ kpc' = "dismiss"
         /\ UNCHANGED clickResult
    ELSE /\ kpc' = "done"
         /\ clickResult' = exc
         /\ UNCHANGED <<attempt, dismissCalls, byIndex>>

(* WebDriverWait(...).until(element_to_be_clickable(element))              *)
ClickWait ==
    /\ ClickFrame
    /\ kpc = "wait"
    /\ \E w \in WaitOutcomes :
         IF w = "clickable"
         THEN /\ kpc' = "click"
              /\ UNCHANGED <<attempt, dismissCalls, byIndex, clickResult>>
         ELSE ClickRaise(w)
    /\ UNCHANGED <<clickLog, dismissedBy>>

(* element.click(): the last statement of the try block and of the         *)
(* handler.                                                                *)
ClickElement ==
    /\ ClickFrame
    /\ kpc = "click"
    /\ \E c \in ClickOutcomes :
         /\ clickLog' = Append(clickLog, c)
         /\ IF c = "ok"
            THEN /\ kpc' = "done"
                 /\ clickResult' = "returned"
                 /\ UNCHANGED <<attempt, dismissCalls, byIndex>>
            ELSE ClickRaise(c)
    /\ UNCHANGED dismissedBy

(* tryDismissAllMessages: one iteration of "for byValue in byValues".      *)
TryDismissByValue ==
    /\ ClickFrame
    /\ kpc = "dismiss"
    /\ \E d \in DismissOutcomes :
         CASE d = "nothing" ->
                /\ byIndex' = byIndex + 1
                /\ kpc' = IF byIndex = NumByValues THEN "cookie" ELSE kpc
                /\ UNCHANGED <<dismissedBy, clickResult>>
           [] d = "clicked" ->
                /\ dismissedBy' = dismissedBy \cup {byIndex}
                /\ byIndex' = byIndex + 1
                /\ kpc' = IF byIndex = NumByValues THEN "cookie" ELSE kpc
                /\ UNCHANGED clickResult
           [] OTHER ->
                /\ kpc' = "done"
                /\ clickResult' = d
                /\ UNCHANGED <<byIndex, dismissedBy>>
    /\ UNCHANGED <<attempt, clickLog, dismissCalls>>

(* tryDismissAllMessages: the button of the cookie banner, under           *)
(* suppress(NoSuchElementException); then the handler's wait.              *)
TryDismissCookieBanner ==
    /\ ClickFrame
    /\ kpc = "cookie"
    /\ \E d \in DismissOutcomes :
         IF d \in {"nothing", "clicked"}
         THEN /\ kpc' = "wait"
              /\ UNCHANGED clickResult
         ELSE /\ kpc' = "done"
              /\ clickResult' = d
    /\ UNCHANGED <<attempt, clickLog, dismissCalls, byIndex, dismissedBy>>

ClickNext ==
    \/ ClickWait
    \/ ClickElement
    \/ TryDismissByValue
    \/ TryDismissCookieBanner

MoreIdle ==
    /\ HbIdle /\ BotIdle /\ LoadIdle /\ QuizIdle /\ AbcIdle /\ TotIdle
    /\ ClickIdle

ExtraIdle == CodeIdle /\ GeoIdle /\ LcIdle /\ MoreIdle

-----------------------------------------------------------------------------
(* Specifications.                                                         *)

DashInit == DashStart /\ SessIdle /\ ActIdle /\ RsIdle /\ ExtraIdle

DashSpec == DashInit /\ [][DashNext]_vars

(* The scheduler runs the one thread of the call whenever it can take a    *)
(* step.                                                                   *)
FairDashSpec == DashSpec /\ WF_vars(DashNext)

DashIdle ==
    /\ dpc = "idle"
    /\ tries = 0
    /\ reads = 0
    /\ url = REWARDS_URL
    /\ urlBefore = "unset"
    /\ lastGet = "none"
    /\ pend = "none"
    /\ gctx = "none"
    /\ navBack = "none"
    /\ outcome = "running"
    /\ raisedBy = "none"

SessInit == SessStart /\ DashIdle /\ ActIdle /\ RsIdle /\ ExtraIdle

SessSpec == SessInit /\ [][SessNext]_vars

CleanupSpec == SessInit /\ [][CleanupNext]_vars

ActInit == ActStart /\ DashIdle /\ SessIdle /\ RsIdle /\ ExtraIdle

ActSpec == ActInit /\ [][ActNext]_vars

ClassInit == ClassStart /\ DashIdle /\ SessIdle /\ RsIdle /\ ExtraIdle

ClassSpec == ClassInit /\ [][ClassNext]_vars

RsInit == RsStart /\ DashIdle /\ SessIdle /\ ActIdle /\ ExtraIdle

FirstFourIdle == DashIdle /\ SessIdle /\ ActIdle /\ RsIdle

CodeInit == CodeStart /\ FirstFourIdle /\ GeoIdle /\ LcIdle /\ MoreIdle

CodeSpec == CodeInit /\ [][CodeNext]_vars

GeoInit == GeoStart /\ FirstFourIdle /\ CodeIdle /\ LcIdle /\ MoreIdle

LcInit == LcStart /\ FirstFourIdle /\ CodeIdle /\ GeoIdle /\ MoreIdle

LcSpec == LcInit /\ [][LcNext]_vars

GeoSpec == GeoInit /\ [][GeoNext]_vars

RsSpec == RsInit /\ [][RsNext]_vars

BaseIdle == FirstFourIdle /\ CodeIdle /\ GeoIdle /\ LcIdle

HbInit ==
    /\ HbStart /\ BaseIdle /\ BotIdle /\ LoadIdle /\ QuizIdle /\ AbcIdle
    /\ TotIdle /\ ClickIdle

BotInit ==
    /\ BotStart
    /\ SessStart
    /\ DashIdle /\ ActIdle /\ RsIdle /\ CodeIdle /\ GeoIdle /\ LcIdle /\ HbIdle
    /\ LoadIdle /\ QuizIdle /\ AbcIdle /\ TotIdle /\ ClickIdle

BotSpec == BotInit /\ [][BotNext]_vars

LoadInit ==
    /\ LoadStart /\ BaseIdle /\ HbIdle /\ BotIdle /\ QuizIdle /\ AbcIdle
    /\ TotIdle /\ ClickIdle

QuizInit ==
    /\ QuizStart /\ BaseIdle /\ HbIdle /\ BotIdle /\ LoadIdle /\ AbcIdle
    /\ TotIdle /\ ClickIdle

AbcInit ==
    /\ AbcStart /\ BaseIdle /\ HbIdle /\ BotIdle /\ LoadIdle /\ QuizIdle
    /\ TotIdle /\ ClickIdle

TotInit ==
    /\ TotStart /\ BaseIdle /\ HbIdle /\ BotIdle /\ LoadIdle /\ QuizIdle
    /\ AbcIdle /\ ClickIdle

ClickInit ==
    /\ ClickStart /\ BaseIdle /\ HbIdle /\ BotIdle /\ LoadIdle /\ QuizIdle
    /\ AbcIdle /\ TotIdle

ClickSpec == ClickInit /\ [][ClickNext]_vars

TotSpec == TotInit /\ [][TotNext]_vars

AbcSpec == AbcInit /\ [][AbcNext]_vars

QuizSpec == QuizInit /\ [][QuizNext]_vars

LoadSpec == LoadInit /\ [][LoadNext]_vars

(* The one thread of the call runs whenever it can take a step.            *)
FairLoadSpec == LoadSpec /\ WF_vars(LoadNext)

HbSpec == HbInit /\ [][HbNext]_vars

(* The scheduler runs every thread that can take a step.                   *)
FairHbSpec == HbSpec /\ WF_vars(HbNext)

-----------------------------------------------------------------------------
(* Properties of the session lifecycle, checked under SessSpec.            *)

(* C1: on every exit path of the with block, when __exit__ has returned    *)
(* quit has been invoked on the browser, its process is terminated and     *)
(* the session holds no webdriver.                                         *)
C1_ExitTerminatesBrowser ==
    bpc = "exited" =>
        /\ quitCalls >= 1
        /\ process = "terminated"
        /\ webdriver = "None"

(* C2: when a construction step after the launch fails, the launched       *)
(* browser has been released when the error reaches the caller of the      *)
(* constructor, and the error does reach it.                               *)
C2_SetupFailureReleasesBrowser ==
    failedStep \in {"discover", "listener", "apply"} =>
        /\ bpc = "ctor_raised"
        /\ quitCalls >= 1
        /\ process = "terminated"

(* C3: while the session is in the caller's hands, the initial tab and     *)
(* every page target reported created have had all the CDP commands        *)
(* applied, and exactly one target-created listener is registered.         *)
C3_EveryPageTargetHasSettings ==
    bpc = "open" =>
        /\ listeners = 1
        /\ initialApplied = NumCdpCommands
        /\ \A i \in 1..Len(targets) :
             targets[i].type = "page" => targets[i].applied = NumCdpCommands

-----------------------------------------------------------------------------
(* Properties of getDashboardData, checked under DashSpec (C9 under        *)
(* FairDashSpec).                                                          *)

(* C6: one call of getDashboardData reads the dashboard object at most     *)
(* five times.                                                             *)
C6_AtMostFiveReads == reads <= 5

(* A call in which the fifth read has been made.                           *)
C6_FifthReadMade == reads = 5 /\ dpc \in {"finally", "except"}

(* C7: when all five attempts have failed the call raises; it never        *)
(* returns normally without a dashboard object.                            *)
C7_ExhaustedRetriesRaise == dpc = "done" => outcome \in {"dict", "raised"}

(* C8: when getDashboardData has finished, its last navigation went to     *)
(* urlBefore, or to the dashboard when navigating back failed, and no      *)
(* failure to navigate back has been raised to the caller.                 *)
C8_NavigatesBackOrFallsBack ==
    dpc = "done" =>
        /\ lastGet = (IF navBack = "ok" THEN urlBefore ELSE REWARDS_URL)
        /\ raisedBy # "navback"

(* C9: getDashboardData, and the goToRewards it calls, terminates for      *)
(* every behaviour of the browser.                                         *)
C9_FetchTerminates == <>(dpc = "done")

(* C23: the retry sequence of getDashboardData ends early only on a        *)
(* successful read: a call that has finished while the failing attempt     *)
(* was one before the fifth has returned the dashboard object, every       *)
(* earlier failure having been followed by the reload, the delay, the      *)
(* landmark wait and a further attempt.                                    *)
C23_EndsEarlyOnlyOnSuccessfulRead ==
    (dpc = "done" /\ tries < maxTries - 1) => outcome = "dict"

-----------------------------------------------------------------------------
(* Properties of completeActivities, checked under ActSpec.                *)

(* C4: no exception raised while opening, completing or resetting tabs     *)
(* after an activity leaves doActivity, so completeActivities reaches its  *)
(* end having attempted every activity of both catalogs.                   *)
C4_NoExceptionEscapesDoActivity ==
    /\ abortedBy # "doActivity"
    /\ apc = "done" =>
         Len(attempted) = Len(dailySetPromotions) + Len(morePromotions)

(* C5: when doActivity has returned for an activity that was opened, one   *)
(* window is left, it is the current one and it shows the dashboard.       *)
C5_OneTabOnDashboardAfterActivity ==
    (doResult = "returned" /\ opened) =>
        /\ Len(handles) = 1
        /\ handles[1] = curr
        /\ tabUrl[curr] = REWARDS_URL

(* doActivity has returned for an opened activity whose completion raised. *)
C5_ReturnedAfterFailedCompletion ==
    doResult = "returned" /\ opened /\ procOutcome = "raised"

(* C33: the doActivity calls of completeActivities are made in this order: *)
(* the daily-set activities in catalog order, each once, then the          *)
(* more-promotions activities in catalog order, each once; when a          *)
(* more-promotions activity is attempted every daily-set activity has      *)
(* been; and the catalogs are read again for the report only when every    *)
(* activity of both catalogs has been attempted, with no attempt after.    *)
C33_DailySetBeforeMorePromotions ==
    LET n == Len(attempted)
        daily == {i \in 1..n : attempted[i][1] = "daily"}
        more == {i \in 1..n : attempted[i][1] = "more"}
    IN  /\ \A i \in daily, j \in more : i < j
        /\ \A i \in daily : attempted[i][2] = i
        /\ \A j \in more : attempted[j][2] = j - Cardinality(daily)
        /\ more # {} => Cardinality(daily) = Len(dailySetPromotions)
        /\ reread # <<>> =>
              /\ apc = "done"
              /\ n = Len(dailySetPromotions) + Len(morePromotions)

(* Two daily-set activities and then one more-promotions activity have     *)
(* been attempted, and the catalogs have been read again for the report.   *)
C33_TwoDailyOneMoreThenReread ==
    /\ apc = "done"
    /\ attempted = <<(<<"daily", 1>>), (<<"daily", 2>>), (<<"more", 1>>)>>
    /\ Len(dailySetPromotions) = 2
    /\ Len(morePromotions) = 1
    /\ reread # <<>>

-----------------------------------------------------------------------------
(* Properties of getRemainingSearches, checked under RsSpec.               *)

(* The desktop count a finished call hands back, if it hands one back.     *)
ReturnsDesktopCount ==
    \/ rsOut.kind = "RemainingSearches"
    \/ rsOut.kind = "int" /\ ~rsIn.mobile

ReturnedDesktopCount ==
    IF rsOut.kind = "RemainingSearches" THEN rsOut.desktop ELSE rsOut.value

(* C10: with d = pointProgressMax - pointProgress of the desktop counter   *)
(* and p its points per search, a call raises when d is no multiple of p,  *)
(* and a desktop count it returns is exactly d / p (6 for 90 and 72); on   *)
(* Level1 with a dashboard object and d a multiple of p it does return.    *)
C10_DesktopCountExactOrRaise ==
    rsOut.kind # "pending" =>
        LET d == rsIn.pcMax - rsIn.pcProgress
            p == IF rsIn.pcMax \in {30, 90, 102} THEN 3
                 ELSE IF rsIn.pcMax \in {50, 150} \/ rsIn.pcMax >= 170 THEN 5
                 ELSE 1
        IN  /\ d % p # 0 => rsOut.kind = "raise"
            /\ ReturnsDesktopCount => ReturnedDesktopCount * p = d
            /\ (rsIn.pcMax = 90 /\ rsIn.pcProgress = 72 /\ ReturnsDesktopCount)
                 => ReturnedDesktopCount = 6
            /\ (d % p = 0 /\ rsIn.fetched = "dict"
                /\ rsIn.activeLevel = "Level1") => rsOut.kind # "raise"

(* The call of scenario C has returned both counts.                        *)
C10_NinetySeventyTwoGivesSix ==
    /\ rsIn.pcMax = 90 /\ rsIn.pcProgress = 72
    /\ rsOut.kind = "RemainingSearches"
    /\ rsOut.desktop = 6

(* C11: the searchPoints a call that got a dashboard object works with is  *)
(* 3 when pcSearch's pointProgressMax is 30, 90 or 102, 5 when it is 50,   *)
(* 150 or at least 170, and 1 for every other value.                       *)
C11_PointsPerSearchTable ==
    (rsOut.kind # "pending" /\ rsIn.fetched = "dict") =>
        /\ rsIn.pcMax \in {30, 90, 102} => rsLocals.searchPoints = 3
        /\ (rsIn.pcMax \in {50, 150} \/ rsIn.pcMax >= 170)
              => rsLocals.searchPoints = 5
        /\ (rsIn.pcMax \notin {30, 90, 102, 50, 150} /\ rsIn.pcMax < 170)
              => rsLocals.searchPoints = 1

(* A call on a desktop counter of 102 points has returned 2 searches for   *)
(* the 6 points left.                                                      *)
C11_HundredAndTwoUsesThree ==
    /\ rsIn.pcMax = 102 /\ rsIn.pcProgress = 96
    /\ rsOut.kind = "int" /\ ~rsIn.mobile /\ rsOut.value = 2
    /\ rsLocals.searchPoints = 3

(* The table of lines 627-630 applied to any counter's pointProgressMax.    *)
PointsInferredFrom(pointProgressMax) ==
    IF pointProgressMax \in {30, 90, 102} THEN 3
    ELSE IF pointProgressMax \in {50, 150} \/ pointProgressMax >= 170 THEN 5
    ELSE 1

(* The mobile count a finished call hands back, if it hands one back.      *)
ReturnsMobileCount ==
    \/ rsOut.kind = "RemainingSearches"
    \/ rsOut.kind = "int" /\ rsIn.mobile

ReturnedMobileCount ==
    IF rsOut.kind = "RemainingSearches" THEN rsOut.mobile ELSE rsOut.value

(* C12 as stated: each counter's divisibility check and count use the      *)
(* points per search inferred from that counter's own pointProgressMax,    *)
(* so on Level2 a returned mobile count times the value inferred from the  *)
(* mobile counter's max is the mobile counter's remaining points, and the  *)
(* call returns when each remainder is a multiple of its own value.        *)
C12_EachCounterOwnPoints ==
    (rsOut.kind # "pending" /\ rsIn.fetched = "dict") =>
        LET d == rsIn.pcMax - rsIn.pcProgress
            m == rsIn.mobMax - rsIn.mobProgress
            pd == PointsInferredFrom(rsIn.pcMax)
            pm == PointsInferredFrom(rsIn.mobMax)
        IN  /\ ReturnsDesktopCount => ReturnedDesktopCount * pd = d
            /\ (ReturnsMobileCount /\ rsIn.activeLevel = "Level2")
                  => ReturnedMobileCount * pm = m
            /\ (rsIn.activeLevel = "Level2" /\ rsIn.mobPresent
                /\ d % pd = 0 /\ m % pm = 0) => rsOut.kind # "raise"

(* C12, amended: the divisibility check and the count of both counters     *)
(* use the one value inferred from the desktop counter's pointProgressMax: *)
(* the desktop count is the desktop remainder over it, on Level2 the       *)
(* mobile count is the mobile remainder over it, and the call raises when  *)
(* the mobile remainder is no multiple of it and returns when both are.    *)
C12_BothCountersDesktopPoints ==
    (rsOut.kind # "pending" /\ rsIn.fetched = "dict") =>
        LET d == rsIn.pcMax - rsIn.pcProgress
            m == rsIn.mobMax - rsIn.mobProgress
            pd == PointsInferredFrom(rsIn.pcMax)
        IN  /\ ReturnsDesktopCount => ReturnedDesktopCount * pd = d
            /\ (ReturnsMobileCount /\ rsIn.activeLevel = "Level2")
                  => ReturnedMobileCount * pd = m
            /\ (rsIn.activeLevel = "Level2" /\ m % pd # 0)
                  => rsOut.kind = "raise"
            /\ (rsIn.activeLevel = "Level2" /\ rsIn.mobPresent
                /\ d % pd = 0 /\ m % pd = 0) => rsOut.kind # "raise"

(* A Level2 call on a desktop counter of 90 and a mobile counter of 60     *)
(* with 6 mobile points left has returned 2 mobile searches.               *)
C12_SixMobilePointsGiveTwo ==
    /\ rsIn.activeLevel = "Level2"
    /\ rsIn.pcMax = 90 /\ rsIn.mobMax = 60 /\ rsIn.mobProgress = 54
    /\ rsOut.kind = "RemainingSearches" /\ rsOut.mobile = 2

(* C13: a call raises for every activeLevel other than "Level1" and        *)
(* "Level2", so it never returns a mobile count of 0 for such a level; on  *)
(* "Level1" the mobile count is 0 and the mobile counter is not read, so   *)
(* a dashboard without a mobile counter is no obstacle.                    *)
C13_UnknownLevelRaisesLevel1SkipsMobile ==
    rsOut.kind # "pending" =>
        /\ rsIn.activeLevel \notin {"Level1", "Level2"}
              => rsOut.kind = "raise"
        /\ rsIn.activeLevel = "Level1" =>
              /\ ReturnsMobileCount => ReturnedMobileCount = 0
              /\ ~rsLocals.mobileRead
              /\ (rsIn.fetched = "dict"
                  /\ (rsIn.pcMax - rsIn.pcProgress)
                       % PointsInferredFrom(rsIn.pcMax) = 0)
                    => rsOut.kind # "raise"

(* A Level1 call on a dashboard without a mobile counter has returned      *)
(* both counts, the mobile one 0.                                          *)
C13_Level1WithoutMobileCounter ==
    /\ rsIn.activeLevel = "Level1" /\ ~rsIn.mobPresent
    /\ rsIn.mobProgress < rsIn.mobMax
    /\ rsOut.kind = "RemainingSearches" /\ rsOut.mobile = 0
    /\ rsOut.desktop > 0

-----------------------------------------------------------------------------
(* Properties of one doActivity call, checked under ClassSpec.             *)

(* The activity of the call.                                               *)
TheActivity ==
    IF dailySetPromotions # <<>> THEN dailySetPromotions[1]
    ELSE morePromotions[1]

(* C14: the call of doActivity on an activity that is complete, or whose   *)
(* pointProgressMax is 0, or that is locked, or whose title is on the      *)
(* ignore list, whatever its other fields are, returns at once: no card    *)
(* is opened, nothing is clicked, no completion is started, nothing is     *)
(* typed, and the windows, the current window and their URLs stay as they  *)
(* were.                                                                   *)
C14_SkippedActivityTouchesNothing ==
    [][ (/\ apc \in {"daily", "more"}
         /\ astep = "begin"
         /\ \/ TheActivity.complete
            \/ TheActivity.pointProgressMax = 0
            \/ TheActivity.exclusiveLockedFeatureStatus = "locked"
            \/ cleanupActivityTitle(TheActivity.title) \in IgnoreList)
        => (/\ doResult' = "returned"
            /\ ~opened' /\ ~clicked'
            /\ protocol' = "none" /\ typed' = "none"
            /\ astep' = "begin"
            /\ handles' = handles /\ curr' = curr /\ tabUrl' = tabUrl) ]_vars

(* doActivity has returned for a complete urlreward activity whose title   *)
(* is in the lookup table, and nothing was opened.                         *)
C14_CompleteLookupTitleSkipped ==
    /\ doResult = "returned" /\ ~opened
    /\ TheActivity.title = WhatTimeIsIt
    /\ TheActivity.complete /\ TheActivity.promotionType = "urlreward"
    /\ TheActivity.exclusiveLockedFeatureStatus = "unlocked"
    /\ attempted # <<>>

(* The completion the ordered rules pick for a non-skipped activity.       *)
FirstMatch(activity) ==
    LET title == cleanupActivityTitle(activity.title)
    IN  CASE title \in {WhatTimeIsIt, WhoWon} -> "redirect-search"
          [] Contains(title, <<"p", "o", "l", "l">>) -> "poll"
          [] activity.promotionType = "urlreward" -> "passive visit"
          [] activity.promotionType = "quiz"
             /\ activity.pointProgressMax = 10 -> "fixed-choice"
          [] activity.promotionType = "quiz"
             /\ activity.pointProgressMax \in {30, 40} -> "multi-step"
          [] activity.promotionType = "quiz"
             /\ activity.pointProgressMax = 50 -> "this-or-that"
          [] OTHER -> "passive visit"

(* What a branch of the dispatch does, in the words of the rules.  A       *)
(* passive visit interacts no further: completeSearch has an empty body,   *)
(* and so has the quiz branch for another pointProgressMax.                *)
KindOf(started) ==
    CASE started = "send_keys" -> "redirect-search"
      [] started = "completeSurvey" -> "poll"
      [] started = "completeABC" -> "fixed-choice"
      [] started = "completeQuiz" -> "multi-step"
      [] started = "completeThisOrThat" -> "this-or-that"
      [] OTHER -> "passive visit"

(* C15: when doActivity has reached the dispatch for a non-skipped         *)
(* activity, the one completion it started is the first match of: title    *)
(* in the lookup table (the mapped query is typed, "china time" for "What  *)
(* time is it?"), title containing "poll", promotionType urlreward,        *)
(* promotionType quiz by pointProgressMax (10, 30 or 40, 50), otherwise a  *)
(* passive visit.                                                          *)
C15_FirstMatchCompletionRuns ==
    (opened /\ (procOutcome = "completed" \/ protocol # "none")) =>
        /\ KindOf(protocol) = FirstMatch(TheActivity)
        /\ typed =
             (CASE cleanupActivityTitle(TheActivity.title) = WhatTimeIsIt
                     -> "china time"
                [] cleanupActivityTitle(TheActivity.title) = WhoWon
                     -> "braves score"
                [] OTHER -> "none")

(* Scenario A: "What time is it?", not complete, pointProgressMax 5,       *)
(* promotionType urlreward, has had "china time" typed.                    *)
C15_ScenarioAChinaTime ==
    /\ TheActivity = Activity(WhatTimeIsIt, FALSE, 0, 5, "urlreward",
                              "unlocked")
    /\ procOutcome = "completed"
    /\ protocol = "send_keys" /\ typed = "china time"

-----------------------------------------------------------------------------
(* Properties of getAnswerCode, checked under CodeSpec.                    *)

(* The number a string of decimal digits denotes.                          *)
RECURSIVE DecimalValue(_)
DecimalValue(digits) ==
    IF digits = <<>> THEN 0
    ELSE 10 * DecimalValue(SubSeq(digits, 1, Len(digits) - 1))
         + (CHOOSE d \in 0..9 : DecimalDigits[d + 1] = digits[Len(digits)])

(* The sum of the character codes of a text, from its last character on.   *)
RECURSIVE CodeSum(_)
CodeSum(text) ==
    IF Len(text) = 0 THEN 0
    ELSE CodeSum(SubSeq(text, 1, Len(text) - 1)) + ord(text[Len(text)])

(* C16: for every key of at least two characters that ends in two          *)
(* hexadecimal digits and every text, the empty one included,              *)
(* getAnswerCode returns the decimal string (digits only, no leading       *)
(* zero) of the sum of the text's character codes plus the last two        *)
(* characters of the key read in base 16.                                  *)
C16_AnswerCodeIsDecimalOfSumPlusHex ==
    (/\ acOut.kind \notin {"pending", "idle"}
     /\ Len(acKey) >= 2
     /\ IsHexDigit(acKey[Len(acKey) - 1]) /\ IsHexDigit(acKey[Len(acKey)]))
    => /\ acOut.kind = "str"
       /\ Len(acOut.value) >= 1
       /\ \A i \in 1..Len(acOut.value) :
            \E d \in 0..9 : DecimalDigits[d + 1] = acOut.value[i]
       /\ (Len(acOut.value) > 1 => acOut.value[1] # "0")
       /\ DecimalValue(acOut.value)
            = CodeSum(acText) + 16 * HexValue(acKey[Len(acKey) - 1])
              + HexValue(acKey[Len(acKey)])

(* The code of the text "aB" (97 + 66) under a key ending in "aF" (175)    *)
(* has been returned: "338".                                               *)
C16_CodeOfaBUnderaF ==
    /\ LastTwo(acKey) = <<"a", "F">>
    /\ acText = <<"a", "B">>
    /\ acOut = [kind |-> "str", value |-> <<"3", "3", "8">>]

-----------------------------------------------------------------------------
(* Properties of the device geometry, checked under GeoSpec.               *)

(* C17: a call of _apply_cdp_settings made while config.json holds sizes   *)
(* uses exactly that width and height and does not write config.json; a    *)
(* call after it, in the same Browser or in a later one, uses the same     *)
(* width and height.                                                       *)
C17_StoredSizesReused ==
    \A i \in 1..Len(applied) :
        (applied[i].stored # None /\ applied[i].stored # NoSizes) =>
            /\ applied[i].deviceWidth = applied[i].stored.width
            /\ applied[i].deviceHeight = applied[i].stored.height
            /\ ~applied[i].wrote
            /\ \A j \in i..Len(applied) :
                 /\ applied[j].stored = applied[i].stored
                 /\ applied[j].deviceWidth = applied[i].deviceWidth
                 /\ applied[j].deviceHeight = applied[i].deviceHeight
            /\ configFile = applied[i].stored

(* Stored sizes of 1920 by 1080 have been applied to two tabs of one       *)
(* Browser and to a tab of the next one.                                   *)
C17_StoredSizesOnThreeTabs ==
    /\ Len(applied) = 3
    /\ \A i \in 1..3 :
         /\ applied[i].stored = [height |-> 1080, width |-> 1920]
         /\ applied[i].deviceWidth = 1920 /\ applied[i].deviceHeight = 1080
    /\ applied[1].session = 1 /\ applied[2].session = 1
    /\ applied[3].session = 2

(* C18: freshly generated desktop sizes have a width in 1024..2560 and a   *)
(* height of at most 1440 and at most 0.8 times the width; freshly         *)
(* generated mobile sizes have a height in 568..1024 and a width of at     *)
(* most 576 and at most 0.7 times the height.                              *)
C18_FreshSizesInRange ==
    \A i \in 1..Len(applied) :
        applied[i].fresh =>
            IF applied[i].mobile
            THEN /\ applied[i].deviceHeight \in 568..1024
                 /\ applied[i].deviceWidth <= 576
                 /\ 10 * applied[i].deviceWidth <= 7 * applied[i].deviceHeight
            ELSE /\ applied[i].deviceWidth \in 1024..2560
                 /\ applied[i].deviceHeight <= 1440
                 /\ 10 * applied[i].deviceHeight <= 8 * applied[i].deviceWidth

(* The narrowest desktop with its greatest height, 1024 by 819, has been   *)
(* generated and saved.                                                    *)
C18_NarrowestDesktopTallest ==
    /\ Len(applied) >= 1
    /\ applied[1].fresh /\ ~applied[1].mobile
    /\ applied[1].deviceWidth = 1024 /\ applied[1].deviceHeight = 819
    /\ configFile = [height |-> 819, width |-> 1024]

(* C31: over the desktop and mobile sessions of one account, every         *)
(* geometry applied lies within the bounds of the device class of the      *)
(* session that applies it.                                                *)
C31_GeometryWithinOwnDeviceClass ==
    \A i \in 1..Len(applied) :
        IF applied[i].mobile
        THEN /\ applied[i].deviceHeight \in 568..1024
             /\ applied[i].deviceWidth <= 576
             /\ 10 * applied[i].deviceWidth <= 7 * applied[i].deviceHeight
        ELSE /\ applied[i].deviceWidth \in 1024..2560
             /\ applied[i].deviceHeight <= 1440
             /\ 10 * applied[i].deviceHeight <= 8 * applied[i].deviceWidth

(* What a call added to the viewport to get the screen.                   *)
WidthAllowance(a) == a.screenWidth - a.deviceWidth

HeightAllowance(a) == a.screenHeight - a.deviceHeight

SameAllowancesPerClass ==
    \A i, j \in 1..Len(applied) :
        applied[i].mobile = applied[j].mobile =>
            /\ WidthAllowance(applied[i]) = WidthAllowance(applied[j])
            /\ HeightAllowance(applied[i]) = HeightAllowance(applied[j])

(* C32 as stated: the screen is the viewport plus allowances that depend   *)
(* on the device class only, and what is added for mobile is larger than   *)
(* what is added for desktop, in width or in height.                       *)
C32_MobileAllowanceLarger ==
    /\ SameAllowancesPerClass
    /\ \A i, j \in 1..Len(applied) :
           (applied[i].mobile /\ ~applied[j].mobile) =>
               \/ WidthAllowance(applied[i]) > WidthAllowance(applied[j])
               \/ HeightAllowance(applied[i]) > HeightAllowance(applied[j])

(* C32: the screen is the viewport plus allowances that depend on the      *)
(* device class only: 55 in width and 151 in height for desktop, nothing   *)
(* in width and 146 in height for mobile, so that what is added for        *)
(* mobile is smaller than what is added for desktop in both dimensions.    *)
C32_DesktopAllowanceLarger ==
    /\ SameAllowancesPerClass
    /\ \A i \in 1..Len(applied) :
           /\ WidthAllowance(applied[i]) = (IF applied[i].mobile THEN 0 ELSE 55)
           /\ HeightAllowance(applied[i])
                  = (IF applied[i].mobile THEN 146 ELSE 151)
    /\ \A i, j \in 1..Len(applied) :
           (applied[i].mobile /\ ~applied[j].mobile) =>
               /\ WidthAllowance(applied[i]) < WidthAllowance(applied[j])
               /\ HeightAllowance(applied[i]) < HeightAllowance(applied[j])

(* A mobile session has applied freshly generated sizes and a desktop      *)
(* session after it has applied settings too.                              *)
C32_MobileThenDesktopApplied ==
    /\ Len(applied) = 2
    /\ applied[1].mobile /\ applied[1].fresh
    /\ applied[1].screenHeight = applied[1].deviceHeight + 146
    /\ ~applied[2].mobile
    /\ applied[2].screenWidth = applied[2].deviceWidth + 55

(* C38: within one session every application of the settings uses the     *)
(* same viewport and screen geometry; a session generates geometry at      *)
(* most once, and the call that generates it writes it to config.json,     *)
(* which holds it from then on.                                            *)
C38_OneGeometryPerSession ==
    /\ \A i, j \in 1..Len(applied) :
           applied[i].session = applied[j].session =>
               /\ applied[i].deviceWidth = applied[j].deviceWidth
               /\ applied[i].deviceHeight = applied[j].deviceHeight
               /\ applied[i].screenWidth = applied[j].screenWidth
               /\ applied[i].screenHeight = applied[j].screenHeight
               /\ (applied[i].fresh /\ applied[j].fresh) => i = j
    /\ \A i \in 1..Len(applied) :
           applied[i].fresh =>
               /\ applied[i].wrote
               /\ configFile = [height |-> applied[i].deviceHeight,
                                width |-> applied[i].deviceWidth]

(* The initial tab of a mobile session generated 568 by 320, and a later   *)
(* page target of the session got the same geometry without generating.    *)
C38_GeneratedOnceUsedTwice ==
    /\ Len(applied) = 2
    /\ applied[1].session = 1 /\ applied[2].session = 1
    /\ applied[1].mobile
    /\ applied[1].fresh /\ ~applied[2].fresh
    /\ applied[1].deviceHeight = 568 /\ applied[1].deviceWidth = 320
    /\ applied[2].deviceHeight = 568 /\ applied[2].deviceWidth = 320
    /\ configFile = [height |-> 568, width |-> 320]

-----------------------------------------------------------------------------
(* Properties of getLanguageCountry, checked under LcSpec.                 *)

(* The first source, in the order argument, configured default, process    *)
(* locale, geolocation lookup, built-in default, that has the field.       *)
FirstSet(arg, configured, localeOutcome, localeValue, ipapiValue, builtin) ==
    IF ~Unset(arg) THEN arg
    ELSE IF ~Unset(configured) THEN configured
    ELSE IF localeOutcome = "value" THEN localeValue
    ELSE IF lcIn.ipapi = "location" THEN ipapiValue
    ELSE builtin

(* C19: a call that returns gives each field the value of its first        *)
(* source that has it (argument, configured default, process locale,       *)
(* geolocation lookup, "en" / "US"); in particular a country argument is   *)
(* returned unchanged whether or not a language argument was given.        *)
C19_PrecedencePerField ==
    lcOut.kind = "tuple" =>
        /\ lcOut.language =
             FirstSet(lcIn.language, lcIn.configLanguage,
                      lcIn.localeLanguage, "pt", "ja", "en")
        /\ lcOut.country =
             FirstSet(lcIn.country, lcIn.configGeolocation,
                      lcIn.localeCountry, "BR", "JP", "US")
        /\ ~Unset(lcIn.country) => lcOut.country = lcIn.country

(* C37: every call returns a pair of non-empty values, and a call that    *)
(* finds nothing in the locale and whose geolocation lookup is             *)
(* rate-limited returns "en" and "US".                                     *)
C37_AlwaysReturnsNonEmptyPair ==
    lcOut.kind # "pending" =>
        /\ lcOut.kind = "tuple"
        /\ ~Unset(lcOut.language)
        /\ ~Unset(lcOut.country)
        /\ ( /\ Unset(lcIn.language)
             /\ Unset(lcIn.configLanguage)
             /\ lcIn.localeLanguage = "ValueError"
             /\ lcIn.localeCountry = "ValueError"
             /\ lcIn.ipapi = "RateLimited" )
            => (lcOut.language = "en" /\ lcOut.country = "US")

-----------------------------------------------------------------------------
(* Properties of the incomplete-activity report, checked under ActSpec.    *)

(* Positions of the re-read whose activity has points left to earn.        *)
RereadIncomplete ==
    {i \in 1..Len(reread) :
        reread[i].pointProgress < reread[i].pointProgressMax}

-----------------------------------------------------------------------------
(* Properties of Utils.click, checked under ClickSpec.                     *)

(* C34: click calls element.click() at most twice and                      *)
(* tryDismissAllMessages at most once, the latter exactly when the first   *)
(* click was intercepted or not interactable; a first click that succeeds  *)
(* ends the call with nothing dismissed; a second click is made only after *)
(* the dismissal, and its exception is the one the call raises; a call     *)
(* that returns after a dismissal has made the second click.               *)
C34_RecoversExactlyOnce ==
    LET n == Len(clickLog)
    IN  /\ n <= 2
        /\ dismissCalls <= 1
        /\ dismissCalls = 1 <=> (n >= 1 /\ clickLog[1] \in Obstructed)
        /\ (n >= 1 /\ clickLog[1] = "ok") =>
              /\ n = 1
              /\ dismissedBy = {}
              /\ kpc = "done" /\ clickResult = "returned"
        /\ n = 2 =>
              /\ kpc = "done"
              /\ clickResult = IF clickLog[2] = "ok" THEN "returned"
                               ELSE clickLog[2]
        /\ (kpc = "done" /\ clickResult = "returned" /\ dismissCalls = 1) =>
              (n = 2 /\ clickLog[2] = "ok")

(* The first click was intercepted, the dashboard pop-up (the last entry   *)
(* of byValues) was dismissed, and the second click went through.          *)
C34_RetriedAfterDismissal ==
    /\ kpc = "done"
    /\ clickLog = <<"ElementClickInterceptedException", "ok">>
    /\ dismissedBy = {NumByValues}
    /\ clickResult = "returned"

-----------------------------------------------------------------------------
(* Properties of the modal check of an opened activity, checked under      *)
(* ClassSpec.                                                              *)

(* is_displayed() returned True for the modal's close button.              *)
ModalDisplayed == modalButton \in {"clicked", "click_raised"}

(* C39: when the modal's close button of an opened activity is displayed,  *)
(* no completion protocol runs and nothing is typed for the activity, and  *)
(* resetTabs is the next step of doActivity or has run.                    *)
C39_DisplayedModalSkipsProtocol ==
    ModalDisplayed =>
        /\ protocol = "none"
        /\ typed = "none"
        /\ procOutcome = "modal"
        /\ astep = "reset" \/ doResult # "none" \/ apc = "hung"

-----------------------------------------------------------------------------
(* Properties of the threads of a session, checked under HbSpec.           *)

(* The threads that are inside a webdriver command: 0 is the main flow,    *)
(* t the t-th heartbeat thread.                                            *)
InCommand ==
    (IF hbusy THEN {0} ELSE {})
        \cup {t \in 1..Len(hthreads) : hthreads[t].busy}

(* C21: at every moment of a session at most one thread is issuing a       *)
(* command to the session's browser.                                       *)
C21_OneThreadIssuesCommands == Cardinality(InCommand) <= 1

(* C35: the heartbeat thread a call started has stopped when the call has  *)
(* returned or raised, and at most one heartbeat thread is alive.  The     *)
(* threads of hthreads are the live ones: a thread that ended would leave. *)
C35_HeartbeatStopsWithActivity ==
    /\ Len(hthreads) <= 1
    /\ hpc = "between" => Len(hthreads) = 0

-----------------------------------------------------------------------------
(* Properties of Browser.cleanup, checked under CleanupSpec.               *)

(* C36: whenever cleanup has returned, webdriver and utils are both None,  *)
(* whatever close() and quit() did; a call of cleanup on an object that    *)
(* has been cleaned up sends no close() and no quit() and leaves the       *)
(* object as it was.                                                       *)
C36_CleanupTotalAndIdempotent ==
    /\ [](bpc \in {"ctor_raised", "exited", "cleaned_again"}
            => (webdriver = "None" /\ utils = "None"))
    /\ [][bpc' = "cleaned_again"
            => /\ closeCalls' = closeCalls
               /\ quitCalls' = quitCalls
               /\ process' = process
               /\ webdriver' = "None"
               /\ utils' = "None"]_vars

(* The with block was left, close() raised in __exit__'s cleanup, and      *)
(* cleanup has been called again: one close() was sent in all, no quit().  *)
C36_SecondCallAfterFailedClose ==
    /\ bpc = "cleaned_again"
    /\ exitPath # "none"
    /\ closeCalls = 1
    /\ quitCalls = 0
    /\ process = "running"
    /\ webdriver = "None"
    /\ utils = "None"

-----------------------------------------------------------------------------
(* Properties of executeBot, checked under BotSpec.                        *)

(* C22: at most one live browser process uses the account's profile        *)
(* directory: the desktop session's process is not running any more when   *)
(* the mobile session's browser runs on the same directory.                *)
C22_OneLiveProcessPerProfile ==
    ~(botpc = "mobile" /\ desktopProcess = "running" /\ process = "running")

-----------------------------------------------------------------------------
(* Properties of waitUntilQuizLoads, checked under LoadSpec (C26 under     *)
(* FairLoadSpec).                                                          *)

(* C26: waitUntilQuizLoads always terminates; the first check that finds   *)
(* the container ends it with True; it calls refresh at most 5 times, and  *)
(* it returns False only when 5 reloads have been made and the container   *)
(* is still absent.                                                        *)
C26_QuizLoadsTerminates ==
    /\ <>(wpc = "done")
    /\ [](lastFound => (wpc = "done" /\ wresult = "True"))
    /\ [](wresult = "True" => lastFound)
    /\ [](Len(reloadChecks) <= 5)
    /\ [](wresult = "False" => (refreshCount = 5 /\ ~lastFound))

(* A call that returned False after its fifth reload.                      *)
C26_FalseAfterFiveReloads ==
    wpc = "done" /\ wresult = "False" /\ Len(reloadChecks) = 5

(* C27 as stated: every reload is preceded by at most 10 checks for the    *)
(* container since the previous reload (or the start).                     *)
C27_AtMostTenChecksBeforeReload ==
    \A i \in 1..Len(reloadChecks) : reloadChecks[i] <= 10

(* C27: every reload is preceded by exactly 11 failed checks for the       *)
(* container since the previous reload (or the start): the 10 that are     *)
(* each followed by a pause, and the one that finds tries = 10.            *)
C27_ElevenChecksBeforeReload ==
    \A i \in 1..Len(reloadChecks) : reloadChecks[i] = 11

(* The second reload of a call is being made.                              *)
C27_SecondReload ==
    Len(reloadChecks) = 2 /\ wpc = "check" /\ checks = 0

-----------------------------------------------------------------------------
(* Properties of completeQuiz, checked under QuizSpec.                     *)

(* The options clicked so far in the current round, in click order.        *)
ClickedOptions == [i \in 1..Len(SelectSeq(qlog, LAMBDA e : e.kind = "click"))
                     |-> SelectSeq(qlog, LAMBDA e : e.kind = "click")[i].option]

(* The options of the current question whose correctness flag is true.     *)
FlaggedOptions ==
    {i \in 0..(Len(qpage.options) - 1) :
        qpage.options[i + 1] \in {"True", "true"}}

(* The body of the current round has run to its end.                       *)
RoundOver == qpc = "click" /\ answers = <<>>

(* C28: in the 8-option quiz every round clicks exactly the options whose  *)
(* correctness flag is true, each once, in ascending option number, and    *)
(* the wait for the question refresh after a click has returned before     *)
(* the next click.                                                         *)
C28_EightOptionsClickFlaggedInOrder ==
    numberOfOptions = 8 =>
        /\ \A i \in 1..Len(ClickedOptions) :
               ClickedOptions[i] \in FlaggedOptions
        /\ \A i, j \in 1..Len(ClickedOptions) :
               i < j => ClickedOptions[i] < ClickedOptions[j]
        /\ RoundOver =>
               {ClickedOptions[i] : i \in 1..Len(ClickedOptions)}
                   = FlaggedOptions
        /\ \A i \in 1..Len(qlog) :
               qlog[i].kind = (IF i % 2 = 1 THEN "click" ELSE "refresh")
        /\ \A i \in 1..Len(qlog) :
               i % 2 = 0 => qlog[i].option = qlog[i - 1].option

(* A round of the 8-option quiz that clicked options 2, 5 and 7 and no     *)
(* other.                                                                  *)
C28_RoundClickedTwoFiveSeven ==
    /\ numberOfOptions = 8
    /\ RoundOver
    /\ FlaggedOptions = {2, 5, 7}
    /\ ClickedOptions = <<2, 5, 7>>

(* The options of the current question whose declared value equals the     *)
(* correct answer of the page.                                             *)
MatchingOptions ==
    {i \in 0..(Len(qpage.options) - 1) :
        qpage.options[i + 1] = qpage.correctAnswer}

(* C29: in the 2, 3 and 4 option quiz a round clicks at most one option,   *)
(* and the one clicked is the lowest-numbered option whose declared value  *)
(* equals the page's correct answer of the round.                          *)
C29_ClicksLowestMatchingOption ==
    numberOfOptions \in {2, 3, 4} =>
        /\ Len(ClickedOptions) <= 1
        /\ \A i \in 1..Len(ClickedOptions) :
               /\ ClickedOptions[i] \in MatchingOptions
               /\ \A m \in MatchingOptions : ClickedOptions[i] <= m

(* A round of the 4-option quiz in which options 1 and 3 match and option  *)
(* 1 alone has been clicked.                                               *)
C29_SecondOfFourClicked ==
    /\ numberOfOptions = 4
    /\ RoundOver
    /\ MatchingOptions = {1, 3}
    /\ ClickedOptions = <<1>>

-----------------------------------------------------------------------------
(* Properties of completeABC, checked under AbcSpec.                       *)

(* The integers that appear in a text: the values of its runs of digits.   *)
IntegersIn(text) ==
    {DecimalValue(SubSeq(text, i, j)) :
        <<i, j>> \in {p \in (1..Len(text)) \X (1..Len(text)) :
                        /\ p[1] <= p[2]
                        /\ \A k \in p[1]..p[2] :
                               \E d \in 1..10 : DecimalDigits[d] = text[k]}}

LargestIntegerIn(text) == CHOOSE n \in IntegersIn(text) :
                              \A m \in IntegersIn(text) : m <= n

(* C25: with N the largest integer of the header text, completeABC makes   *)
(* its clicks in cycles for the questions 0, 1, .. in order, each cycle    *)
(* one click on option 0, 1 or 2 of the question followed by one click on  *)
(* the question's next button, never more than N cycles, and exactly N     *)
(* when it returns.                                                        *)
C25_AbcCyclesPerQuestion ==
    IntegersIn(header) # {} =>
        /\ \A i \in 1..Len(ablog) :
               /\ ablog[i].question = (i - 1) \div 2
               /\ ablog[i].kind = (IF i % 2 = 1 THEN "option" ELSE "next")
               /\ ablog[i].kind = "option" => ablog[i].choice \in {0, 1, 2}
        /\ Len(ablog) <= 2 * LargestIntegerIn(header)
        /\ abresult = "returned" =>
               Len(ablog) = 2 * LargestIntegerIn(header)

(* completeABC has returned from the header "(1 of 3)" after 3 cycles.     *)
C25_ScenarioBOneOfThree ==
    /\ header = <<"(", "1", " ", "o", "f", " ", "3", ")">>
    /\ abresult = "returned"
    /\ Len(ablog) = 6
    /\ ablog[6] = [kind |-> "next", question |-> 2, choice |-> -1]

-----------------------------------------------------------------------------
(* Properties of completeThisOrThat, checked under TotSpec.                *)

(* The options of the current round whose code under the page's key equals *)
(* the correct answer the page declares.                                   *)
MatchingCodes ==
    {o \in 0..(Len(tpage.texts) - 1) :
        getAnswerCode(tpage.key, tpage.texts[o + 1]).value
            = tpage.correctAnswer}

(* C24: in every round of completeThisOrThat the option clicked is one of  *)
(* the round's two options whose code, computed by getAnswerCode from the  *)
(* page's key and the option's text, equals the correct answer the page    *)
(* declares for the round; no option is clicked in a round where neither   *)
(* code matches.                                                           *)
C24_ClickedOptionHasMatchingCode ==
    tclick # -1 => tclick \in MatchingCodes

-----------------------------------------------------------------------------
(* A property of getAnswerCode, checked under CodeSpec.                    *)

(* The texts made of the characters of a text in another order.            *)
Rearrangements(text) ==
    {[i \in 1..Len(text) |-> text[f[i]]] : f \in Permutations(1..Len(text))}

(* C30: for every key, getAnswerCode gives every permutation of the        *)
(* characters of a text what it gives the text.                            *)
C30_AnswerCodeIgnoresCharacterOrder ==
    acOut.kind \notin {"pending", "idle"} =>
        \A text \in Rearrangements(acText) :
            getAnswerCode(acKey, text) = acOut

(* The code of "aB0" has been computed; "0Ba" is one of its five other     *)
(* orders.                                                                 *)
C30_CodeOfThreeDistinctCharacters ==
    /\ acOut.kind = "str"
    /\ acText = <<"a", "B", "0">>
    /\ <<"0", "B", "a">> \in Rearrangements(acText)
    /\ Cardinality(Rearrangements(acText)) = 6

====
